---- MODULE Spec2Model ----
(***************************************************************************)
(* Verification model of the article extraction engine (extrablatt_v2):    *)
(* the body-node scorer and the text-node enumerator (src/src/text.rs,     *)
(* src/src/extract_node.rs), the text cleaner and its line filter          *)
(* (src/src/text.rs), the author extractor (src/src/extract_authors.rs),   *)
(* the title extractor (src/src/extract_title.rs) and the metadata         *)
(* extractors (src/src/extract_meta.rs).                                   *)
(*                                                                         *)
(* A Document is a function from node indices 0..n-1 (pre-order, as the    *)
(* HTML parser appends them) to nodes.  A node carries its tag, the        *)
(* parent / prev / next links of select::node::Raw, its attributes and,    *)
(* for a text node, the measures of its text that the scorer reads.        *)
(***************************************************************************)
EXTENDS Integers, Sequences, FiniteSets, TLC

VARIABLES
    doc,            \* the parsed Document handed to article_node
    lang,           \* the Language handed to article_node
    pc,             \* position inside article_node / calculate_best_node
    txt_nodes,      \* calculate_best_node: Vec<(node, stats, score)>
    i,              \* calculate_best_node: loop index of the scoring loop
    starting_boost, \* calculate_best_node: starting_boost
    nodes_scores,   \* calculate_best_node: HashMap<usize, (usize, usize)>
    boost_log,      \* boost_score of every finished loop iteration
    upscore_log,    \* upscore of every finished loop iteration
    result,         \* Option<ArticleTextNode> returned by article_node
    path,           \* which return statement produced result
    a_doc,          \* authors(): the elements of the document, in order
    a_out,          \* authors(): the returned Vec
    t_doc,          \* title(): the title sources of the document
    t_out,          \* title(): the returned Option<String>
    c_doc,          \* clean_text(): the nodes below the selected article node
    c_out,          \* clean_text(): the returned String
    m_doc,          \* metadata extractors: the document (and the base URL)
    m_out,          \* metadata extractors: the returned Option
    f_next,         \* TextNodeFind: the cursor self.next
    f_out,          \* TextNodeFind: what the calls of next() returned so far
    f_seen,         \* TextNodeFind: the indices the loop of next() looked at
    l_line,         \* is_code_like_line: the line it is called with
    l_out           \* is_code_like_line: the returned bool

vars == <<doc, lang, pc, txt_nodes, i, starting_boost, nodes_scores,
          boost_log, upscore_log, result, path, a_doc, a_out, t_doc, t_out,
          c_doc, c_out, m_doc, m_out, f_next, f_out, f_seen, l_line, l_out>>

nodeVars == <<doc, lang, txt_nodes, i, starting_boost, nodes_scores,
              boost_log, upscore_log, result, path>>

FindIdle == f_next = 0 /\ f_out = <<>> /\ f_seen = <<>> /\ l_line = <<>> /\ l_out = FALSE

None == -1          \* Option::None for node references and results
Absent == "<absent>" \* an attribute the element does not carry

Range(f) == {f[x] : x \in DOMAIN f}

Max(S) == CHOOSE x \in S : \A y \in S : y <= x
Min(S) == CHOOSE x \in S : \A y \in S : x <= y

(***************************************************************************)
(* Bounds of the document families.                                        *)
(***************************************************************************)
MaxItems == 2       \* leaf items per section of a small document
MaxParas == 31      \* paragraphs of a long single-column document
MinParas == 14      \* shortest long document (N <= 15 and N > 15 both occur)

(***************************************************************************)
(* Text.  A text is abstracted to the measures the code reads from it.     *)
(* bytes = str::len, chars = chars().count(), lead / trail = leading and   *)
(* trailing whitespace bytes, blank = trim().is_empty(), dist = the text   *)
(* contains "/dist/", words / stops = the WordsStats of the text for a     *)
(* language that has a stopword table.  Every non-blank text of the        *)
(* catalogue ends with one space, so that concatenating texts merges no    *)
(* words and creates no new "/dist/".  No text of the catalogue contains   *)
(* another pattern of is_noise_text.                                       *)
(***************************************************************************)
ZeroText == [bytes |-> 0, chars |-> 0, lead |-> 0, trail |-> 0, blank |-> TRUE,
             dist |-> FALSE, words |-> 0, stops |-> 0]

TextOf(k) ==
    CASE k = "good"  -> [bytes |-> 60, chars |-> 60, lead |-> 0, trail |-> 1, blank |-> FALSE,
                         dist |-> FALSE, words |-> 12, stops |-> 6]
      [] k = "ok"    -> [bytes |-> 50, chars |-> 50, lead |-> 0, trail |-> 1, blank |-> FALSE,
                         dist |-> FALSE, words |-> 9, stops |-> 5]
      [] k = "short" -> [bytes |-> 20, chars |-> 20, lead |-> 0, trail |-> 1, blank |-> FALSE,
                         dist |-> FALSE, words |-> 4, stops |-> 2]
      [] k = "few"   -> [bytes |-> 60, chars |-> 60, lead |-> 0, trail |-> 1, blank |-> FALSE,
                         dist |-> FALSE, words |-> 10, stops |-> 4]
      [] k = "blank" -> [bytes |-> 60, chars |-> 60, lead |-> 60, trail |-> 60, blank |-> TRUE,
                         dist |-> FALSE, words |-> 0, stops |-> 0]
      [] k = "noise" -> [bytes |-> 60, chars |-> 60, lead |-> 0, trail |-> 1, blank |-> FALSE,
                         dist |-> TRUE, words |-> 12, stops |-> 6]
      [] k = "link"  -> [bytes |-> 70, chars |-> 70, lead |-> 0, trail |-> 1, blank |-> FALSE,
                         dist |-> FALSE, words |-> 14, stops |-> 7]
      [] k = "cyr"   -> [bytes |-> 56, chars |-> 30, lead |-> 0, trail |-> 1, blank |-> FALSE,
                         dist |-> FALSE, words |-> 6, stops |-> 5]
      [] k = "tiny"  -> [bytes |-> 40, chars |-> 40, lead |-> 0, trail |-> 1, blank |-> FALSE,
                         dist |-> FALSE, words |-> 10, stops |-> 6]
      [] OTHER       -> ZeroText

\* String concatenation on the measures (a followed by b).
Concat(a, b) ==
    [bytes |-> a.bytes + b.bytes,
     chars |-> a.chars + b.chars,
     lead  |-> IF a.blank THEN a.bytes + b.lead ELSE a.lead,
     trail |-> IF b.blank THEN b.bytes + a.trail ELSE b.trail,
     blank |-> a.blank /\ b.blank,
     dist  |-> a.dist \/ b.dist,
     words |-> a.words + b.words,
     stops |-> a.stops + b.stops]

\* str::trim().len()
TrimLen(t) == IF t.blank THEN 0 ELSE t.bytes - t.lead - t.trail

(***************************************************************************)
(* Attribute values.  The few string operations the code applies to        *)
(* attribute values are tabulated over the values the documents use.       *)
(***************************************************************************)
AttrNames == {"class", "id", "itemprop", "itemtype", "role", "rel", "style", "name",
              "data-testid", "data-role", "data-image-caption", "data-creative"}

NoAttrs == [k \in AttrNames |-> Absent]

\* str::to_lowercase
Lower(s) ==
    CASE s = "Footer-Links" -> "footer-links"
      [] s = "Author" -> "author"
      [] OTHER -> s

\* str::contains(sub), for the values and patterns in use
Contains(s, sub) ==
    \/ s = sub
    \/ <<s, sub>> \in { <<"article-content", "article">>, <<"article-content", "content">>,
                        <<"footer-links", "footer">>,
                        <<"main-content", "content">>,
                        <<"article-author", "author">>,
                        <<"byline", "byl">>,
                        <<"post-body", "post">>,
                        <<"story-text", "story">>,
                        <<"http://schema.org/Article", "schema.org/Article">>,
                        <<"http://schema.org/NewsArticle", "schema.org/NewsArticle">>,
                        <<"http://schema.org/BlogPosting", "schema.org/BlogPosting">>,
                        <<"noopener nofollow", "nofollow">>,
                        <<"related-posts", "related-">>, <<"related-posts", "post">>,
                        <<"entry-list", "entry">>, <<"story-body", "story">>,
                        <<"paragraph-1", "paragraph">>,
                        <<"position: absolute; left: -9999px", "position: absolute">>,
                        <<"position: absolute; left: -9999px", "left: -9999px">> }

\* the whitespace-separated tokens of a class attribute (select's Class)
ClassTokens(s) ==
    CASE s = Absent   -> {}
      [] s = "ad box" -> {"ad", "box"}
      [] OTHER        -> {s}

(***************************************************************************)
(* Elements of the documents: tag and attributes.                          *)
(***************************************************************************)
El(tag, attrs) == [tag |-> tag, attrs |-> attrs]

ElemOf(k) ==
    CASE k = "html"       -> El("html", NoAttrs)
      [] k = "head"       -> El("head", NoAttrs)
      [] k = "frameset"   -> El("frameset", NoAttrs)
      [] k = "body"       -> El("body", NoAttrs)
      [] k = "bodyIP"     -> El("body", [NoAttrs EXCEPT !["itemprop"] = "articleBody"])
      [] k = "metaIP"     -> El("meta", [NoAttrs EXCEPT !["itemprop"] = "articleBody"])
      [] k = "div"        -> El("div", NoAttrs)
      [] k = "divContent" -> El("div", [NoAttrs EXCEPT !["class"] = "content"])
      [] k = "divMain"    -> El("div", [NoAttrs EXCEPT !["id"] = "main-content"])
      [] k = "divIP"      -> El("div", [NoAttrs EXCEPT !["itemprop"] = "articleBody"])
      [] k = "divStory"   -> El("div", [NoAttrs EXCEPT !["class"] = "story-text"])
      [] k = "divPostId"  -> El("div", [NoAttrs EXCEPT !["id"] = "post-body"])
      [] k = "divSidebar" -> El("div", [NoAttrs EXCEPT !["class"] = "sidebar"])
      [] k = "divFooter"  -> El("div", [NoAttrs EXCEPT !["class"] = "Footer-Links"])
      [] k = "divAd"      -> El("div", [NoAttrs EXCEPT !["class"] = "ad box"])
      [] k = "article"    -> El("article", NoAttrs)
      [] k = "section"    -> El("section", NoAttrs)
      [] k = "nav"        -> El("nav", NoAttrs)
      [] k = "figure"     -> El("figure", NoAttrs)
      [] k = "p"          -> El("p", NoAttrs)
      [] k = "td"         -> El("td", NoAttrs)
      [] k = "a"          -> El("a", NoAttrs)
      [] k = "aNofollow"  -> El("a", [NoAttrs EXCEPT !["rel"] = "noopener nofollow"])
      [] k = "aRelNofollow" -> El("a", [NoAttrs EXCEPT !["rel"] = "nofollow"])
      [] k = "aExternal"  -> El("a", [NoAttrs EXCEPT !["rel"] = "external"])
      [] k = "pCreative"  -> El("p", [NoAttrs EXCEPT !["data-creative"] = "1"])
      [] k = "divCreative" -> El("div", [NoAttrs EXCEPT !["data-creative"] = "1"])
      [] k = "divStoryId" -> El("div", [NoAttrs EXCEPT !["id"] = "story-body"])
      [] k = "divCaption" -> El("div", [NoAttrs EXCEPT !["data-image-caption"] = ""])
      [] k = "divRelated" -> El("div", [NoAttrs EXCEPT !["class"] = "related-posts"])
      [] k = "divEntryId" -> El("div", [NoAttrs EXCEPT !["id"] = "entry-list"])
      [] k = "divParaId"  -> El("div", [NoAttrs EXCEPT !["id"] = "paragraph-1"])
      [] k = "divEntry"   -> El("div", [NoAttrs EXCEPT !["class"] = "entry-list"])
      [] k = "imgHidden"  -> El("img", [NoAttrs EXCEPT !["style"] = "display: none"])
      [] k = "imgOff"     -> El("img", [NoAttrs EXCEPT !["style"] =
                                           "position: absolute; left: -9999px"])
      [] k = "imgAbs"     -> El("img", [NoAttrs EXCEPT !["style"] = "position: absolute"])
      [] k = "divHidden"  -> El("div", [NoAttrs EXCEPT !["style"] = "display: none"])
      [] k = "strong"     -> El("strong", NoAttrs)
      [] k = "em"         -> El("em", NoAttrs)
      [] k = "text"       -> El("#text", NoAttrs)
      [] OTHER            -> El(k, NoAttrs)

(***************************************************************************)
(* Building a Document from its pre-order listing.  An entry gives the     *)
(* depth of the node, its element and, for a text node, its text.          *)
(***************************************************************************)
E(depth, el) == [depth |-> depth, el |-> el, txt |-> ""]
T(depth, txt) == [depth |-> depth, el |-> "text", txt |-> txt]

Build(flat) ==
    LET n == Len(flat)
        par(x) == LET S == {j \in 1..(x - 1) : flat[j].depth = flat[x].depth - 1}
                  IN  IF S = {} THEN 0 ELSE Max(S)
        prv(x) == LET S == {j \in (par(x) + 1)..(x - 1) : flat[j].depth = flat[x].depth}
                  IN  IF S = {} THEN 0 ELSE Max(S)
        nxt(x) == LET S == {j \in (x + 1)..n : flat[j].depth <= flat[x].depth}
                  IN  IF S = {} \/ flat[Min(S)].depth < flat[x].depth THEN 0 ELSE Min(S)
    IN  [x \in 0..(n - 1) |->
            [tag    |-> ElemOf(flat[x + 1].el).tag,
             attrs  |-> ElemOf(flat[x + 1].el).attrs,
             parent |-> par(x + 1) - 1,
             prev   |-> prv(x + 1) - 1,
             next   |-> nxt(x + 1) - 1,
             text   |-> TextOf(flat[x + 1].txt)]]

(***************************************************************************)
(* The DOM view: select::node::Node over a Document d.                     *)
(***************************************************************************)
Nodes(d) == DOMAIN d

IsElement(d, n) == d[n].tag # "#text"

\* Node::name() == Some(t), the predicate Name(t)
Name(d, n, t) == d[n].tag = t

\* Node::attr(k) and the predicate Attr(k, v) (exact value)
attr(d, n, k) == d[n].attrs[k]
Attr(d, n, k, v) == d[n].attrs[k] # Absent /\ d[n].attrs[k] = v

\* the predicate Class(c): one whitespace-separated token of class is c
Class(d, n, c) == c \in ClassTokens(d[n].attrs["class"])

RECURSIVE IsAncestor(_, _, _)
\* a is a proper ancestor of n (walk of Node::parent)
IsAncestor(d, a, n) ==
    IF d[n].parent = None THEN FALSE
    ELSE d[n].parent = a \/ IsAncestor(d, a, d[n].parent)

\* the last index of the subtree of n, from j on: indices are pre-order, so
\* the subtree goes on until the first node whose parent lies before n
SubtreeEnd(d, n, j) ==
    LET after == {k \in Nodes(d) : k > j /\ d[k].parent < n}
    IN  IF after = {} THEN Max(Nodes(d) \cup {j}) ELSE Min(after) - 1

\* Node::descendants()
Descendants(d, n) == (n + 1)..SubtreeEnd(d, n, n)

\* Node::find(Name(t)): the descendants named t
FindName(d, n, t) == {j \in Descendants(d, n) : Name(d, j, t)}

RECURSIVE TextRange(_, _, _)
\* the texts of the text nodes lo..hi, concatenated in document order
TextRange(d, lo, hi) ==
    IF lo > hi THEN ZeroText
    ELSE IF lo = hi THEN (IF IsElement(d, lo) THEN ZeroText ELSE d[lo].text)
    ELSE LET mid == (lo + hi) \div 2
         IN  Concat(TextRange(d, lo, mid), TextRange(d, mid + 1, hi))

\* Node::text(): the node's own text, or that of all its descendants
text(d, n) ==
    IF ~IsElement(d, n) THEN d[n].text
    ELSE TextRange(d, n + 1, SubtreeEnd(d, n, n))

RECURSIVE SumChars(_, _)
SumChars(d, S) ==
    IF S = {} THEN 0
    ELSE LET x == Min(S) IN text(d, x).chars + SumChars(d, S \ {x})

text_content_length(d, n) == text(d, n).chars

\* TextContainer::link_density as the fraction num / den
link_density(d, n) ==
    LET link_text_length == SumChars(d, FindName(d, n, "a"))
        total_text_length == text_content_length(d, n)
    IN  IF total_text_length = 0 THEN [num |-> 1, den |-> 1]
        ELSE [num |-> link_text_length, den |-> total_text_length]

\* TextContainer::first_children_text: the first child that is a text node
first_children_text(d, n) ==
    LET S == {j \in Nodes(d) : d[j].parent = n /\ ~IsElement(d, j)}
    IN  IF S = {} THEN None ELSE Min(S)

NoiseClass(c) ==
    LET class_lower == Lower(c)
    IN  \/ Contains(class_lower, "articlebottom")
        \/ Contains(class_lower, "article-bottom")
        \/ Contains(class_lower, "footer")
        \/ Contains(class_lower, "sidebar")
        \/ Contains(class_lower, "widget")
        \/ Contains(class_lower, "related-")
        \/ Contains(class_lower, "recommendation")

RECURSIVE NoiseAncestor(_, _)
\* the while loop of is_noise_node over the parents of the node
NoiseAncestor(d, current) ==
    IF current = None THEN FALSE
    ELSE \/ d[current].tag \in {"script", "style", "noscript", "figcaption", "figure"}
         \/ attr(d, current, "data-image-caption") # Absent
         \/ attr(d, current, "data-creative") # Absent
         \/ (attr(d, current, "class") # Absent /\ NoiseClass(attr(d, current, "class")))
         \/ NoiseAncestor(d, d[current].parent)

\* variant of is_noise_node that looks at the node only
is_noise_node_self_only(d, n) ==
    \/ d[n].tag \in {"script", "style", "link", "meta", "noscript", "figcaption", "figure"}
    \/ attr(d, n, "data-image-caption") # Absent
    \/ attr(d, n, "data-creative") # Absent
    \/ (attr(d, n, "class") # Absent /\ NoiseClass(attr(d, n, "class")))
    \/ (/\ Name(d, n, "img")
        /\ attr(d, n, "style") # Absent
        /\ \/ Contains(attr(d, n, "style"), "display: none")
           \/ Contains(attr(d, n, "style"), "visibility: hidden")
           \/ (/\ Contains(attr(d, n, "style"), "position: absolute")
               /\ Contains(attr(d, n, "style"), "left: -9999px")))

is_noise_node(d, n) ==
    \/ d[n].tag \in {"script", "style", "link", "meta", "noscript", "figcaption", "figure"}
    \/ attr(d, n, "data-image-caption") # Absent
    \/ attr(d, n, "data-creative") # Absent
    \/ (attr(d, n, "class") # Absent /\ NoiseClass(attr(d, n, "class")))
    \/ (/\ Name(d, n, "img")
        /\ attr(d, n, "style") # Absent
        /\ \/ Contains(attr(d, n, "style"), "display: none")
           \/ Contains(attr(d, n, "style"), "visibility: hidden")
           \/ (/\ Contains(attr(d, n, "style"), "position: absolute")
               /\ Contains(attr(d, n, "style"), "left: -9999px")))
    \/ NoiseAncestor(d, d[n].parent)

(***************************************************************************)
(* TextNodeFind: the text-node enumerator.                                 *)
(***************************************************************************)
ARTICLE_BODY_ATTR ==
    << <<"itemprop", "articleBody">>, <<"data-testid", "article-body">>,
       <<"name", "articleBody">>, <<"class", "content">>,
       <<"class", "article-content">>, <<"class", "post-content">>,
       <<"class", "entry-content">>, <<"class", "main-content">>,
       <<"id", "content">>, <<"id", "article-content">>, <<"id", "main-content">>,
       <<"role", "article">>, <<"data-role", "content">> >>

NON_CONTENT_ATTR ==
    << <<"class", "sidebar">>, <<"class", "navigation">>, <<"class", "nav">>,
       <<"class", "menu">>, <<"class", "footer">>, <<"class", "header">>,
       <<"class", "advertisement">>, <<"class", "ad">>, <<"class", "comments">>,
       <<"class", "widget">>, <<"data-image-caption", "">>,
       <<"role", "navigation">>, <<"role", "complementary">>,
       <<"data-role", "sidebar">> >>

\* variant of is_text_node with the six substrings for id as well
is_text_node_same_ids(d, n) ==
    IF d[n].tag \in {"p", "pre", "td", "article"} THEN TRUE
    ELSE IF Name(d, n, "div") THEN
        \E k \in {"class", "id"} :
            /\ attr(d, n, k) # Absent
            /\ \E sub \in {"article", "story", "paragraph", "content", "post", "entry"} :
                  Contains(attr(d, n, k), sub)
    ELSE FALSE

is_text_node(d, n) ==
    IF d[n].tag \in {"p", "pre", "td", "article"} THEN TRUE
    ELSE IF Name(d, n, "div") THEN
        \/ (/\ attr(d, n, "class") # Absent
            /\ \/ Contains(attr(d, n, "class"), "article")
               \/ Contains(attr(d, n, "class"), "story")
               \/ Contains(attr(d, n, "class"), "paragraph")
               \/ Contains(attr(d, n, "class"), "content")
               \/ Contains(attr(d, n, "class"), "post")
               \/ Contains(attr(d, n, "class"), "entry"))
        \/ (/\ attr(d, n, "id") # Absent
            /\ \/ Contains(attr(d, n, "id"), "article")
               \/ Contains(attr(d, n, "id"), "story")
               \/ Contains(attr(d, n, "id"), "content"))
    ELSE FALSE

is_bad(d, n) ==
    \/ d[n].tag \in {"figure", "figcaption", "media", "aside", "nav", "footer", "header",
                     "script", "style", "link", "meta", "noscript"}
    \/ Class(d, n, "advertisement") \/ Class(d, n, "ad")
    \/ Class(d, n, "sidebar")
    \/ Class(d, n, "navigation")
    \/ Class(d, n, "comments")
    \/ Class(d, n, "caption")

is_non_content_by_attr(d, n) ==
    \E x \in 1..Len(NON_CONTENT_ATTR) :
        Attr(d, n, NON_CONTENT_ATTR[x][1], NON_CONTENT_ATTR[x][2])

\* Iterator::next moves the cursor past the node and its descendants
is_skipped(d, n) ==
    is_bad(d, n) \/ is_non_content_by_attr(d, n) \/ is_noise_node(d, n)

RECURSIVE SkippedAbove(_, _, _)
\* an ancestor of n at or after the cursor position next is skipped
SkippedAbove(d, n, next) ==
    IF d[n].parent = None \/ d[n].parent < next THEN FALSE
    ELSE is_skipped(d, d[n].parent) \/ SkippedAbove(d, d[n].parent, next)

\* the nodes Iterator::next yields from cursor position next on, in order:
\* the cursor reaches a node unless it lies below a skipped node, and a
\* node reached is yielded when it is not skipped and is_text_node
TextNodeFind(d, next) ==
    SelectSeq([x \in 1..(Cardinality(Nodes(d)) - next) |-> next + x - 1],
              LAMBDA n : /\ ~SkippedAbove(d, n, next)
                         /\ ~is_skipped(d, n)
                         /\ is_text_node(d, n))

nodes_to_check(d) == TextNodeFind(d, 0)

(***************************************************************************)
(* ArticleTextNodeExtractor: the body-node scorer.                         *)
(***************************************************************************)
MINIMUM_STOPWORD_COUNT == 5
MAX_STEPSAWAY_FROM_NODE == 3
MIN_TEXT_LENGTH == 50

\* a / b > MAX_LINK_DENSITY, with MAX_LINK_DENSITY = 0.5
ExceedsMaxLinkDensity(ld) == 2 * ld.num > ld.den

\* Language::stopword_count: the WordsStats of a text, None for a language
\* without a stopword table
stopword_count(l, t) ==
    IF l = "unknown" THEN [some |-> FALSE, word_count |-> 0, stopword_count |-> 0]
    ELSE [some |-> TRUE, word_count |-> t.words, stopword_count |-> t.stops]

\* ArticleTextNode::is_noise_text
is_noise_text(t) ==
    IF TrimLen(t) < 10 THEN FALSE
    ELSE t.dist

article_body_predicate(d, n) ==
    \E x \in 1..Len(ARTICLE_BODY_ATTR) :
        Attr(d, n, ARTICLE_BODY_ATTR[x][1], ARTICLE_BODY_ATTR[x][2])

semantic_bonus(d, n) ==
    LET itemprop == attr(d, n, "itemprop")
        itemtype == attr(d, n, "itemtype")
        role == attr(d, n, "role")
        b1 == IF itemprop = "articleBody" THEN 100
              ELSE IF itemprop = "articleText" THEN 40 ELSE 0
        b2 == IF b1 # 0 \/ itemtype = Absent THEN b1
              ELSE IF Contains(itemtype, "schema.org/Article")
                      \/ Contains(itemtype, "schema.org/NewsArticle") THEN 30
              ELSE IF Contains(itemtype, "schema.org/BlogPosting") THEN 20 ELSE 0
        b3 == IF b2 # 0 \/ role # "article" THEN b2
              ELSE IF Name(d, n, "article") THEN 25 ELSE 15
    IN  IF b3 # 0 THEN b3
        ELSE CASE Name(d, n, "article") -> 10
               [] Name(d, n, "main")    -> 8
               [] Name(d, n, "section") -> 5
               [] Name(d, n, "div")     -> 3
               [] OTHER                 -> 0

calculate_node_score(d, n, stops) == stops + semantic_bonus(d, n)

\* variant of survives without the link-density check
survives_no_density(d, l, n) ==
    LET t == text(d, n)
        stats == stopword_count(l, t)
    IN  /\ ~is_noise_node(d, n)
        /\ ~(t.bytes < MIN_TEXT_LENGTH)
        /\ ~(t.blank \/ is_noise_text(t))
        /\ stats.some
        /\ stats.stopword_count >= MINIMUM_STOPWORD_COUNT

\* variant of survives without the minimum-length check
survives_no_length(d, l, n) ==
    LET t == text(d, n)
        stats == stopword_count(l, t)
    IN  /\ ~is_noise_node(d, n)
        /\ ~(t.blank \/ is_noise_text(t))
        /\ ~ExceedsMaxLinkDensity(link_density(d, n))
        /\ stats.some
        /\ stats.stopword_count >= MINIMUM_STOPWORD_COUNT

\* the filter_map closure of calculate_best_node: does the candidate survive
survives(d, l, n) ==
    LET t == text(d, n)
        stats == stopword_count(l, t)
    IN  /\ ~is_noise_node(d, n)
        /\ ~(t.bytes < MIN_TEXT_LENGTH)
        /\ ~(t.blank \/ is_noise_text(t))
        /\ ~ExceedsMaxLinkDensity(link_density(d, n))
        /\ stats.some
        /\ stats.stopword_count >= MINIMUM_STOPWORD_COUNT

\* filter_map over the candidates: the survivors with their stats and score
FilterMap(d, l, cands) ==
    LET kept == SelectSeq(cands, LAMBDA n : survives(d, l, n))
    IN  [x \in 1..Len(kept) |->
            LET stats == stopword_count(l, text(d, kept[x]))
            IN  [node |-> kept[x], stats |-> stats,
                 score |-> calculate_node_score(d, kept[x], stats.stopword_count)]]

collect_txt_nodes(d, l) == FilterMap(d, l, nodes_to_check(d))

is_quality_paragraph(d, l, n) ==
    IF ExceedsMaxLinkDensity(link_density(d, n)) THEN FALSE
    ELSE LET txt == first_children_text(d, n)
             stats == IF txt = None THEN stopword_count("unknown", ZeroText)
                      ELSE stopword_count(l, d[txt].text)
         IN  IF ~stats.some THEN FALSE
             ELSE /\ stats.stopword_count > MINIMUM_STOPWORD_COUNT
                  /\ stats.word_count >= MIN_TEXT_LENGTH \div 5

RECURSIVE WalkSiblings(_, _, _, _, _)
\* one while loop of is_boostable; dir is "prev" or "next"
WalkSiblings(d, l, sibling, steps_away, dir) ==
    IF sibling = None \/ ~Name(d, sibling, "p") THEN FALSE
    ELSE IF steps_away >= MAX_STEPSAWAY_FROM_NODE THEN FALSE
    ELSE IF is_quality_paragraph(d, l, sibling) THEN TRUE
    ELSE WalkSiblings(d, l, IF dir = "prev" THEN d[sibling].prev ELSE d[sibling].next,
                      steps_away + 1, dir)

is_boostable(d, l, n) ==
    \/ WalkSiblings(d, l, d[n].prev, 0, "prev")
    \/ WalkSiblings(d, l, d[n].next, 0, "next")

\* calculate_formatting_bonus, in halves
calculate_formatting_bonus(d, n) ==
    LET link_count == Cardinality(FindName(d, n, "a"))
    IN  (IF FindName(d, n, "strong") # {} THEN 4 ELSE 0)
        + (IF FindName(d, n, "em") # {} THEN 3 ELSE 0)
        + (IF FindName(d, n, "b") # {} THEN 2 ELSE 0)
        + (IF FindName(d, n, "i") # {} THEN 1 ELSE 0)
        - (IF link_count > 5 THEN link_count - 5 ELSE 0)

\* variant of boost_score whose tail test is score < bottom_negativescore_nodes
boost_score_strict(boostable, sb, n, idx) ==
    LET first == IF boostable THEN [num |-> 50, den |-> sb] ELSE [num |-> 0, den |-> 1]
        bottom4 == IF n > 4 THEN n ELSE 4
        score4 == 4 * (n - idx)
        booster4 == bottom4 - score4
    IN  IF n > 15 /\ score4 < bottom4
        THEN IF booster4 * booster4 > 40 * 16
             THEN [num |-> 5, den |-> 1]
             ELSE [num |-> 0 - booster4 * booster4, den |-> 16]
        ELSE first

\* boost_score of loop iteration idx (0-based) as the fraction num / den.
\* boostable: is_boostable of the node, sb: starting_boost before the iteration,
\* n: nodes_number.  bottom_negativescore_nodes and score are kept times 4.
boost_score(boostable, sb, n, idx) ==
    LET first == IF boostable THEN [num |-> 50, den |-> sb] ELSE [num |-> 0, den |-> 1]
        bottom4 == IF n > 4 THEN n ELSE 4
        score4 == 4 * (n - idx)
        booster4 == bottom4 - score4
        negative_scoring == 0
    IN  IF n > 15 /\ score4 <= bottom4
        THEN IF booster4 * booster4 + 16 * negative_scoring > 40 * 16
             THEN [num |-> 5, den |-> 1]
             ELSE [num |-> 0 - booster4 * booster4, den |-> 16]
        ELSE first

\* variant of upscore_of that rounds down whatever the sign
upscore_of_floor(base_score, boost, formatting2, word_count) ==
    LET length100 == IF word_count < 500 THEN word_count ELSE 500
        den == 100 * boost.den
        num == base_score * den + 100 * boost.num + 50 * boost.den * formatting2
               + boost.den * length100
    IN  num \div den

\* (base_score + boost_score + formatting_bonus + length_bonus) as usize:
\* the cast truncates and saturates a negative value to 0
upscore_of(base_score, boost, formatting2, word_count) ==
    LET length100 == IF word_count < 500 THEN word_count ELSE 500
        den == 100 * boost.den
        num == base_score * den + 100 * boost.num + 50 * boost.den * formatting2
               + boost.den * length100
    IN  IF num < 0 THEN 0 ELSE num \div den

\* the entry of index x, or_insert((0, 0))
Entry(scores, x) == IF x \in DOMAIN scores THEN scores[x] ELSE [sum |-> 0, cnt |-> 0]

Put(scores, x, e) == [k \in DOMAIN scores \cup {x} |-> IF k = x THEN e ELSE scores[k]]

\* variant of propagate_score_to_parents that stops at the parent
propagate_score_to_parent_only(d, n, score, scores) ==
    IF d[n].parent = None THEN scores
    ELSE LET parent == d[n].parent
             e1 == Entry(scores, parent)
         IN  Put(scores, parent, [sum |-> e1.sum + score, cnt |-> e1.cnt + 1])

propagate_score_to_parents(d, n, score, scores) ==
    IF d[n].parent = None THEN scores
    ELSE LET parent == d[n].parent
             e1 == Entry(scores, parent)
             s1 == Put(scores, parent, [sum |-> e1.sum + score, cnt |-> e1.cnt + 1])
         IN  IF d[parent].parent = None THEN s1
             ELSE LET grandparent == d[parent].parent
                      grandparent_score == (score * 4) \div 10
                      e2 == Entry(s1, grandparent)
                  IN  Put(s1, grandparent,
                          [sum |-> e2.sum + grandparent_score, cnt |-> e2.cnt + 1])

\* variant of calculate_confidence without the upper clamp
calculate_confidence_unclamped(score, total_nodes) ==
    IF total_nodes = 0 THEN [num |-> 0, den |-> 1]
    ELSE [num |-> score, den |-> total_nodes * 10]

\* calculate_confidence as the fraction num / den
calculate_confidence(score, total_nodes) ==
    IF total_nodes = 0 THEN [num |-> 0, den |-> 1]
    ELSE IF score > total_nodes * 10 THEN [num |-> 1, den |-> 1]
    ELSE [num |-> score, den |-> total_nodes * 10]

\* the entries max_by_key can return: HashMap iteration order is not fixed,
\* so any entry of maximal sum can be the last maximum of the iteration
best_entries(scores) ==
    {x \in DOMAIN scores : \A y \in DOMAIN scores : scores[y].sum <= scores[x].sum}

\* the confidence of the itemprop="articleBody" return
ITEMPROP_CONFIDENCE == [num |-> 95, den |-> 100]

NoResult == [some |-> FALSE, index |-> None, conf |-> [num |-> 0, den |-> 1]]
Some(n, c) == [some |-> TRUE, index |-> n, conf |-> c]

(***************************************************************************)
(* The documents article_node is run on.                                   *)
(*                                                                         *)
(* A small document is <html><head>..</head><body>..</body></html> with up *)
(* to two sections under <body>; a section is a chain of wrapper elements  *)
(* around a list of leaf items.  A long document is one <div> of           *)
(* MinParas..MaxParas paragraphs.  A document without <body> is a frameset *)
(* document.                                                               *)
(***************************************************************************)
\* elements the HTML parser never gives children; it gives <script>,
\* <style> and <noscript> one text child
VoidKinds == {"img", "imgHidden", "imgOff", "imgAbs", "link", "meta"}

Item(k, dep) ==
    CASE k = "pGood"   -> <<E(dep, "p"), T(dep + 1, "good")>>
      [] k = "pOk"     -> <<E(dep, "p"), T(dep + 1, "ok")>>
      [] k = "pShort"  -> <<E(dep, "p"), T(dep + 1, "short")>>
      [] k = "pFew"    -> <<E(dep, "p"), T(dep + 1, "few")>>
      [] k = "pBlank"  -> <<E(dep, "p"), T(dep + 1, "blank")>>
      [] k = "pNoise"  -> <<E(dep, "p"), T(dep + 1, "noise")>>
      [] k = "pCyr"    -> <<E(dep, "p"), T(dep + 1, "cyr")>>
      [] k = "pTiny"   -> <<E(dep, "p"), T(dep + 1, "tiny")>>
      [] k = "pLinky"  -> <<E(dep, "p"), T(dep + 1, "short"), E(dep + 1, "a"), T(dep + 2, "link")>>
      [] k = "pStrong" -> <<E(dep, "p"), T(dep + 1, "good"), E(dep + 1, "strong"),
                            T(dep + 2, "short")>>
      [] k = "aLink"   -> <<E(dep, "a"), T(dep + 1, "link")>>
      [] k = "pRich"   -> <<E(dep, "p"), T(dep + 1, "good"), E(dep + 1, "em"),
                            T(dep + 2, "short"), E(dep + 1, "b"), E(dep + 2, "i"),
                            T(dep + 3, "short")>>
      [] k = "pManyLinks" -> <<E(dep, "p"), T(dep + 1, "good"), T(dep + 1, "good"),
                               T(dep + 1, "good")>>
                             \o [x \in 1..14 |-> IF x % 2 = 1 THEN E(dep + 1, "a")
                                                              ELSE T(dep + 2, "short")]
      [] k = "ws"      -> <<T(dep, "blank")>>
      [] k \in VoidKinds -> <<E(dep, k)>>
      [] k = "scriptEl"   -> <<E(dep, "script"), T(dep + 1, "noise")>>
      [] k = "styleEl"    -> <<E(dep, "style"), T(dep + 1, "noise")>>
      [] k = "noscriptEl" -> <<E(dep, "noscript"), T(dep + 1, "good")>>
      [] OTHER         -> <<>>

ItemKinds == {"pGood", "pOk", "pShort", "pTiny", "pFew", "pBlank", "pNoise", "pCyr",
              "pLinky", "aLink"}

RECURSIVE Items(_, _)
Items(ks, dep) == IF ks = <<>> THEN <<>> ELSE Item(Head(ks), dep) \o Items(Tail(ks), dep)

RECURSIVE Wrapped(_, _, _)
Wrapped(wrap, ks, dep) ==
    IF wrap = <<>> THEN Items(ks, dep)
    ELSE <<E(dep, Head(wrap))>> \o Wrapped(Tail(wrap), ks, dep + 1)

Section(s, dep) == Wrapped(s.wrap, s.items, dep)

Wraps == { <<"div">>, <<"divContent">>, <<"divIP">>, <<"divStory">>, <<"divSidebar">>,
           <<"div", "div">> }

ScoredWraps == { <<"div">>, <<"divContent">>, <<"divStory">>, <<"divSidebar">>, <<"div", "div">> }

ItemSeqs(n) == UNION {[1..m -> ItemKinds] : m \in 0..n}

Sections1 == [wrap : ScoredWraps, items : ItemSeqs(MaxItems)]

Sections2 == { [wrap |-> <<>>, items |-> <<>>],
               [wrap |-> <<"div">>, items |-> <<"pGood">>],
               [wrap |-> <<"divMain">>, items |-> <<"pOk">>],
               [wrap |-> <<"divIP">>, items |-> <<"pStrong">>] }

PlainTop == <<E(0, "html"), E(1, "head"), E(1, "body")>>

Tops == { PlainTop,
          <<E(0, "html"), E(1, "head"), E(1, "bodyIP")>>,
          <<E(0, "html"), E(1, "head"), E(2, "metaIP"), E(1, "body")>> }

\* every item list under every wrapper, in a plain document
SmallDocs == {Build(PlainTop \o Section(s1, 2) \o Section(s2, 2)) :
                 s1 \in Sections1,
                 s2 \in { [wrap |-> <<>>, items |-> <<>>],
                          [wrap |-> <<"div">>, items |-> <<"pGood">>],
                          [wrap |-> <<"divMain">>, items |-> <<"pOk">>] }}

\* every placement of the article-body markers, around one good paragraph
MarkerDocs == {Build(top \o Wrapped(w, <<"pGood">>, 2) \o Section(s2, 2)) :
                  top \in Tops, w \in Wraps, s2 \in Sections2}

NoBodyDocs == { Build(<<E(0, "html"), E(1, "head"), E(1, "frameset"), E(2, "frame")>>),
                Build(<<E(0, "html"), E(1, "head"), E(2, "metaIP"), E(1, "frameset")>>) }

LongDocs == {Build(<<E(0, "html"), E(1, "head"), E(1, "body"), E(2, "div")>>
                   \o Items([x \in 1..n |-> k], 3)) :
                n \in MinParas..MaxParas, k \in {"pGood", "pOk", "pStrong"}}

\* the wrappers of the structural filters: noise by tag, by attribute and by
\* class, the secondary selectors, and the tags, ids and classes of
\* is_text_node
FilterWraps == { <<"figure">>, <<"figure", "figcaption">>, <<"divCaption">>,
                 <<"divCreative">>, <<"divFooter">>, <<"divRelated">>, <<"divHidden">>,
                 <<"nav">>, <<"divAd">>, <<"section">>, <<"divPostId">>, <<"divEntryId">>,
                 <<"divParaId">>, <<"divStoryId">>, <<"divEntry">>, <<"pre">>,
                 <<"table", "tbody", "tr", "td">>, <<"article">> }

FilterItems == { <<"pGood">>, <<"pGood", "pOk">>, <<"imgHidden", "pGood">>,
                 <<"imgOff">>, <<"imgAbs", "pOk">>, <<"img", "link">>, <<"meta">>,
                 <<"scriptEl", "pGood">>, <<"styleEl", "noscriptEl">>,
                 <<"pRich", "pManyLinks">>, <<"pManyLinks">>,
                 <<"pGood", "ws", "pGood">>, <<"pOk", "aLink", "pGood">>,
                 <<"pGood", "pOk", "pOk", "pOk", "pOk">>,
                 <<"pOk", "pOk", "pOk", "pOk", "pGood">> }

\* a filter wrapper, directly under <body> or one <div> down, around the
\* items and one <div> more around a good paragraph; a plain <div> beside
FilterDocs == {Build(PlainTop \o outer
                     \o Wrapped(w, ks, 2 + Len(outer))
                     \o <<E(2 + Len(outer) + Len(w), "div")>>
                     \o Item("pGood", 3 + Len(outer) + Len(w))
                     \o Section([wrap |-> <<"div">>, items |-> <<"pGood">>], 2)) :
                  outer \in {<<>>, <<E(2, "div")>>}, w \in FilterWraps, ks \in FilterItems}

\* foreign content: below <svg> the parser keeps <link> open, so that it has
\* children (text, <a>, <g>), where <p>, <div>, <img>, <meta> end the <svg>
ForeignDocs == {Build(PlainTop \o <<E(2, "svg"), E(3, lk)>> \o below
                      \o <<E(2, "figure")>> \o Item("pGood", 3)
                      \o Section([wrap |-> <<"div">>, items |-> <<"pGood">>], 2)) :
                   lk \in {"link", "g"},
                   below \in {<<T(4, "short")>>, Item("aLink", 4),
                              <<E(4, "g"), T(5, "good")>>}}

Docs == SmallDocs \cup MarkerDocs \cup NoBodyDocs \cup LongDocs \cup FilterDocs
        \cup ForeignDocs

(***************************************************************************)
(* article_node and calculate_best_node as a state machine.                *)
(***************************************************************************)
NodeIdle ==
    /\ txt_nodes = <<>> /\ i = 0 /\ starting_boost = 1
    /\ nodes_scores = <<>> /\ boost_log = <<>> /\ upscore_log = <<>>
    /\ result = NoResult /\ path = "none"

OtherIdle ==
    /\ a_doc = <<>> /\ a_out = <<>> /\ t_doc = <<>> /\ t_out = <<>>
    /\ c_doc = <<>> /\ c_out = <<>> /\ m_doc = <<>> /\ m_out = <<>> /\ FindIdle

InitNode ==
    /\ doc \in Docs
    /\ lang \in {"english", "unknown"}
    /\ lang = "unknown" => Cardinality(DOMAIN doc) <= 8
    /\ pc = "start"
    /\ NodeIdle
    /\ OtherIdle

\* doc.find(Name("body").descendant(article_body_predicate())), in order
body_matches(d) ==
    {n \in Nodes(d) : /\ article_body_predicate(d, n)
                      /\ \E b \in Nodes(d) : Name(d, b, "body") /\ IsAncestor(d, b, n)}

\* variant of itemprop_matches that only looks under <body>
itemprop_matches_under_body(d) ==
    {n \in Nodes(d) : /\ Attr(d, n, "itemprop", "articleBody")
                      /\ \E b \in Nodes(d) : Name(d, b, "body") /\ IsAncestor(d, b, n)}

\* doc.find(Attr("itemprop", "articleBody"))
itemprop_matches(d) == {n \in Nodes(d) : Attr(d, n, "itemprop", "articleBody")}

\* variant of ArticleNodeSingle that looks for itemprop="articleBody" before
\* it returns the single match
ArticleNodeSingle_itemprop_first ==
    /\ pc = "start"
    /\ Cardinality(body_matches(doc)) = 1
    /\ IF itemprop_matches(doc) # {}
       THEN /\ result' = Some(Min(itemprop_matches(doc)), ITEMPROP_CONFIDENCE)
            /\ path' = "itemprop"
       ELSE /\ result' = Some(Min(body_matches(doc)), [num |-> 1, den |-> 1])
            /\ path' = "single"
    /\ pc' = "done"
    /\ UNCHANGED <<doc, lang, txt_nodes, i, starting_boost, nodes_scores, boost_log,
                   upscore_log, a_doc, a_out, t_doc, t_out,
                   c_doc, c_out, m_doc, m_out,
                   f_next, f_out, f_seen, l_line, l_out>>

\* article_node: exactly one node under <body> matches ARTICLE_BODY_ATTR
ArticleNodeSingle ==
    /\ pc = "start"
    /\ Cardinality(body_matches(doc)) = 1
    /\ result' = Some(Min(body_matches(doc)), [num |-> 1, den |-> 1])
    /\ path' = "single"
    /\ pc' = "done"
    /\ UNCHANGED <<doc, lang, txt_nodes, i, starting_boost, nodes_scores, boost_log,
                   upscore_log, a_doc, a_out, t_doc, t_out,
                   c_doc, c_out, m_doc, m_out,
                   f_next, f_out, f_seen, l_line, l_out>>

\* calculate_best_node: the itemprop="articleBody" return
BestNodeItemprop ==
    /\ pc = "start"
    /\ Cardinality(body_matches(doc)) # 1
    /\ itemprop_matches(doc) # {}
    /\ result' = Some(Min(itemprop_matches(doc)), ITEMPROP_CONFIDENCE)
    /\ path' = "itemprop"
    /\ pc' = "done"
    /\ UNCHANGED <<doc, lang, txt_nodes, i, starting_boost, nodes_scores, boost_log,
                   upscore_log, a_doc, a_out, t_doc, t_out,
                   c_doc, c_out, m_doc, m_out,
                   f_next, f_out, f_seen, l_line, l_out>>

\* calculate_best_node: collect txt_nodes and enter the scoring loop
CollectTxtNodes ==
    /\ pc = "start"
    /\ Cardinality(body_matches(doc)) # 1
    /\ itemprop_matches(doc) = {}
    /\ txt_nodes' = collect_txt_nodes(doc, lang)
    /\ starting_boost' = 1
    /\ nodes_scores' = <<>>
    /\ i' = 0
    /\ pc' = "loop"
    /\ UNCHANGED <<doc, lang, boost_log, upscore_log, result, path,
                   a_doc, a_out, t_doc, t_out,
                   c_doc, c_out, m_doc, m_out,
                   f_next, f_out, f_seen, l_line, l_out>>

\* calculate_best_node: one iteration of the scoring loop
ScoreNode ==
    /\ pc = "loop"
    /\ i < Len(txt_nodes)
    /\ LET nodes_number == Len(txt_nodes)
           node == txt_nodes[i + 1].node
           stats == txt_nodes[i + 1].stats
           base_score == txt_nodes[i + 1].score
           boostable == is_boostable(doc, lang, node)
           boost == boost_score(boostable, starting_boost, nodes_number, i)
           upscore == upscore_of(base_score, boost,
                                 calculate_formatting_bonus(doc, node), stats.word_count)
       IN  /\ starting_boost' = IF boostable THEN starting_boost + 1 ELSE starting_boost
           /\ nodes_scores' = propagate_score_to_parents(doc, node, upscore, nodes_scores)
           /\ boost_log' = Append(boost_log, boost)
           /\ upscore_log' = Append(upscore_log, upscore)
    /\ i' = i + 1
    /\ UNCHANGED <<doc, lang, pc, txt_nodes, result, path, a_doc, a_out, t_doc, t_out,
                   c_doc, c_out, m_doc, m_out,
                   f_next, f_out, f_seen, l_line, l_out>>

\* variant of SelectBest that returns None when no node was scored
SelectBest_none_when_empty ==
    /\ pc = "loop"
    /\ i = Len(txt_nodes)
    /\ IF DOMAIN nodes_scores = {} THEN result' = NoResult
       ELSE \E x \in best_entries(nodes_scores) :
               result' = Some(x, calculate_confidence(nodes_scores[x].sum, Len(txt_nodes)))
    /\ path' = "scoring"
    /\ pc' = "done"
    /\ UNCHANGED <<doc, lang, txt_nodes, i, starting_boost, nodes_scores, boost_log,
                   upscore_log, a_doc, a_out, t_doc, t_out,
                   c_doc, c_out, m_doc, m_out,
                   f_next, f_out, f_seen, l_line, l_out>>

\* calculate_best_node: pick the best entry and return
SelectBest ==
    /\ pc = "loop"
    /\ i = Len(txt_nodes)
    /\ \E best \in (IF DOMAIN nodes_scores = {} THEN {<<0, 0>>}
                    ELSE {<<x, nodes_scores[x].sum>> : x \in best_entries(nodes_scores)}) :
          result' = Some(best[1], calculate_confidence(best[2], Len(txt_nodes)))
    /\ path' = "scoring"
    /\ pc' = "done"
    /\ UNCHANGED <<doc, lang, txt_nodes, i, starting_boost, nodes_scores, boost_log,
                   upscore_log, a_doc, a_out, t_doc, t_out,
                   c_doc, c_out, m_doc, m_out,
                   f_next, f_out, f_seen, l_line, l_out>>

NextNode == ArticleNodeSingle \/ BestNodeItemprop \/ CollectTxtNodes \/ ScoreNode \/ SelectBest

SpecNode == InitNode /\ [][NextNode]_vars

(***************************************************************************)
(* TextNodeFind as an iterator: one call of Iterator::next per step.       *)
(***************************************************************************)
\* variant of IteratorNext that does not move the cursor over the
\* descendants of a rejected node
IteratorNext_no_jump(d, next, seen) ==
    LET rest == SelectSeq([x \in 1..(Cardinality(Nodes(d)) - next) |-> next + x - 1],
                          LAMBDA n : ~is_skipped(d, n) /\ is_text_node(d, n))
        upto == IF rest = <<>> THEN Cardinality(Nodes(d)) - 1 ELSE rest[1]
    IN  [item |-> IF rest = <<>> THEN None ELSE rest[1],
         next |-> upto + 1,
         seen |-> seen \o [x \in 1..(upto - next + 1) |-> next + x - 1]]

RECURSIVE IteratorNext(_, _, _)
\* Iterator::next from cursor position next on: the item returned, the
\* cursor it leaves, and the indices the loop looked at (seen, extended)
IteratorNext(d, next, seen) ==
    IF ~(next < Cardinality(Nodes(d)))
    THEN [item |-> None, next |-> next, seen |-> seen]
    ELSE IF is_bad(d, next) \/ is_non_content_by_attr(d, next) \/ is_noise_node(d, next)
    THEN IteratorNext(d, next + 1 + Cardinality(Descendants(d, next)), Append(seen, next))
    ELSE IF is_text_node(d, next)
    THEN [item |-> next, next |-> next + 1, seen |-> Append(seen, next)]
    ELSE IteratorNext(d, next + 1, Append(seen, next))

InitFind ==
    /\ doc \in Docs
    /\ lang = "english"
    /\ pc = "find"
    /\ NodeIdle
    /\ OtherIdle

\* one call of TextNodeFind::next; the consumer stops at the first None
FindNext ==
    /\ pc = "find"
    /\ LET r == IteratorNext(doc, f_next, f_seen)
       IN  /\ f_next' = r.next
           /\ f_out' = Append(f_out, r.item)
           /\ f_seen' = r.seen
           /\ pc' = IF r.item = None THEN "done" ELSE "find"
    /\ UNCHANGED <<doc, lang, txt_nodes, i, starting_boost, nodes_scores, boost_log,
                   upscore_log, result, path, a_doc, a_out, t_doc, t_out,
                   c_doc, c_out, m_doc, m_out, l_line, l_out>>

NextFind == FindNext

SpecFind == InitFind /\ [][NextFind]_vars

(***************************************************************************)
(* Strings.  A string is the sequence of its characters; a character is a  *)
(* one-letter string, or one of the names LF, CR, TAB, NBSP (U+00A0),      *)
(* MIDDOT (U+00B7), RAQUO (U+00BB).                                        *)
(***************************************************************************)
Uppercase == <<"A", "B", "C", "D", "E", "F", "G", "H", "I", "J", "K", "L", "M",
               "N", "O", "P", "Q", "R", "S", "T", "U", "V", "W", "X", "Y", "Z">>
Lowercase == <<"a", "b", "c", "d", "e", "f", "g", "h", "i", "j", "k", "l", "m",
               "n", "o", "p", "q", "r", "s", "t", "u", "v", "w", "x", "y", "z">>
Digits == {"0", "1", "2", "3", "4", "5", "6", "7", "8", "9"}

\* the other characters in use, in code-point order
LowChars == <<"TAB", "LF", "CR", " ", "#", "&", ",", "-", ".", "/">>
MidChars == <<";", "<", "=", ">">>
HighChars == <<"|", "NBSP", "MIDDOT", "RAQUO">>

IndexOf(seq, c) == CHOOSE x \in 1..Len(seq) : seq[x] = c

\* the code point order of the characters (the order of str::cmp)
CharOrd(c) ==
    IF c \in Range(LowChars) THEN IndexOf(LowChars, c)
    ELSE IF c \in Digits THEN 20 + IndexOf(<<"0", "1", "2", "3", "4", "5", "6", "7", "8", "9">>, c)
    ELSE IF c \in Range(MidChars) THEN 40 + IndexOf(MidChars, c)
    ELSE IF c \in Range(Uppercase) THEN 50 + IndexOf(Uppercase, c)
    ELSE IF c \in Range(Lowercase) THEN 80 + IndexOf(Lowercase, c)
    ELSE 110 + IndexOf(HighChars, c)

\* char::is_whitespace
is_whitespace(c) == c \in {" ", "LF", "CR", "TAB", "NBSP"}

\* char::is_ascii_digit
is_ascii_digit(c) == c \in Digits

\* char::to_lowercase
char_lower(c) == IF c \in Range(Uppercase) THEN Lowercase[IndexOf(Uppercase, c)] ELSE c

\* str::to_lowercase
to_lowercase(s) == [x \in 1..Len(s) |-> char_lower(s[x])]

\* a < b in the byte-wise lexicographic order of str::cmp: the first
\* position where they differ decides, else the shorter one is less
StrLess(a, b) ==
    LET differ == {x \in 1..Min({Len(a), Len(b)}) : a[x] # b[x]}
    IN  IF differ = {} THEN Len(a) < Len(b)
        ELSE CharOrd(a[Min(differ)]) < CharOrd(b[Min(differ)])

\* str::trim_start_matches: s from its first character outside P on
TrimStartMatches(s, P) ==
    LET keep == {x \in 1..Len(s) : s[x] \notin P}
    IN  IF keep = {} THEN <<>> ELSE SubSeq(s, Min(keep), Len(s))

\* str::trim_end_matches: s up to its last character outside P
TrimEndMatches(s, P) ==
    LET keep == {x \in 1..Len(s) : s[x] \notin P}
    IN  IF keep = {} THEN <<>> ELSE SubSeq(s, 1, Max(keep))

\* str::trim_matches(|c| c in P)
trim_matches(s, P) == TrimEndMatches(TrimStartMatches(s, P), P)

Whitespace == {" ", "LF", "CR", "TAB", "NBSP"}

\* str::trim
trim(s) == trim_matches(s, Whitespace)

\* str::starts_with
starts_with(s, pat) == Len(s) >= Len(pat) /\ SubSeq(s, 1, Len(pat)) = pat

\* the positions of s where pat matches
Matches(s, pat) ==
    {x \in 1..(Len(s) - Len(pat) + 1) : SubSeq(s, x, x + Len(pat) - 1) = pat}

\* str::contains
contains(s, pat) == Matches(s, pat) # {}

RECURSIVE replace(_, _, _)
\* str::replace(pat, to): the non-overlapping matches, left to right
replace(s, pat, to) ==
    IF Matches(s, pat) = {} THEN s
    ELSE LET at == Min(Matches(s, pat))
         IN  SubSeq(s, 1, at - 1) \o to
             \o replace(SubSeq(s, at + Len(pat), Len(s)), pat, to)

\* the pieces of cur \o s between the separators of s
SplitAcc(s, P, cur) ==
    LET seps == SelectSeq([x \in 1..Len(s) |-> x], LAMBDA x : s[x] \in P)
        n == Len(seps)
    IN  [k \in 1..(n + 1) |->
            (IF k = 1 THEN cur ELSE <<>>)
            \o SubSeq(s, IF k = 1 THEN 1 ELSE seps[k - 1] + 1,
                         IF k = n + 1 THEN Len(s) ELSE seps[k] - 1)]

\* str::split(|c| c in P): every piece between separators, empty ones too
split(s, P) == SplitAcc(s, P, <<>>)

\* str::split_whitespace: the non-empty pieces between whitespace
split_whitespace(s) == SelectSeq(split(s, Whitespace), LAMBDA w : w # <<>>)

RECURSIVE join(_, _)
\* [..].join(sep)
join(parts, sep) ==
    IF parts = <<>> THEN <<>>
    ELSE IF Len(parts) = 1 THEN parts[1]
    ELSE parts[1] \o sep \o join(Tail(parts), sep)

(***************************************************************************)
(* extract_authors.rs: the author extractor.                               *)
(***************************************************************************)
AUTHOR_ATTRS == <<"name", "rel", "itemprop", "class", "id", "property">>

AUTHOR_VALS ==
    <<"author", "byline", "dc.creator", "byl", "article:author", "article:author_name",
      "story-byline", "article-author", "parsely-author", "sailthru.author",
      "citation_author", "article-author">>

AUTHOR_STOP_WORDS ==
    << <<"B", "y">>,
       <<"R", "e", "u", "t", "e", "r", "s">>,
       <<"I", "A", "N", "S">>,
       <<"A", "P">>,
       <<"A", "F", "P">>,
       <<"P", "T", "I">>,
       <<"A", "N", "I">>,
       <<"D", "P", "A">>,
       <<"S", "e", "n", "i", "o", "r", " ", "R", "e", "p", "o", "r", "t", "e", "r">>,
       <<"R", "e", "p", "o", "r", "t", "e", "r">>,
       <<"W", "r", "i", "t", "e", "r">>,
       <<"O", "p", "i", "n", "i", "o", "n", " ", "W", "r", "i", "t", "e", "r">>,
       <<"O", "p", "i", "n", "i", "o", "n", " ", "W", "r", "i", "t", "e", "r">> >>

\* str::len: the UTF-8 length in bytes
ByteLen(s) == Len(s) + Cardinality({x \in 1..Len(s) : s[x] \in {"NBSP", "MIDDOT", "RAQUO"}})

\* ArticleTextNode::is_noise_text on the characters of a text
is_noise_text_chars(s) ==
    LET t == trim(s)
    IN  IF ByteLen(t) < 10 THEN FALSE
        ELSE \/ (contains(t, <<"s", "t", "y", "l", "e", "s", "h", "e", "e", "t">>)
                 /\ contains(t, <<".", "c", "s", "s">>))
             \/ (contains(t, <<"r", "e", "l", "=", "\"">>) /\ contains(t, <<"h", "r", "e", "f", "=", "\"">>))
             \/ contains(t, <<"<", "s", "c", "r", "i", "p", "t">>)
             \/ contains(t, <<"<", "s", "t", "y", "l", "e">>)
             \/ contains(t, <<"<", "l", "i", "n", "k">>)
             \/ contains(t, <<"<", "m", "e", "t", "a">>)
             \/ (contains(t, <<"p", "o", "s", "i", "t", "i", "o", "n", ":", " ", "a", "b", "s", "o", "l", "u", "t", "e">>)
                 /\ contains(t, <<"l", "e", "f", "t", ":", " ", "-", "9", "9", "9", "9", "p", "x">>))
             \/ starts_with(t, <<"h", "t", "t", "p", ":", "/", "/">>)
             \/ starts_with(t, <<"h", "t", "t", "p", "s", ":", "/", "/">>)
             \/ contains(t, <<"/", "d", "i", "s", "t", "/">>)
             \/ contains(t, <<"/", "a", "s", "s", "e", "t", "s", "/">>)
             \/ (/\ contains(t, <<"-">>) /\ contains(t, <<".">>)
                 /\ \E x \in 1..Len(t) : t[x] \in Range(Uppercase)
                 /\ Len(split_whitespace(t)) = 1 /\ ByteLen(t) > 20)

RECURSIVE RemoveTags(_)
\* Regex::new(r"<[^>]+>").replace_all(s, ""): a match starts at a '<' that is
\* followed by at least one character other than '>' and then by a '>'
RemoveTags(s) ==
    LET close(x) == {y \in (x + 1)..Len(s) : s[y] = ">"}
        open == {x \in 1..Len(s) :
                    s[x] = "<" /\ close(x) # {} /\ Min(close(x) \cup {Len(s)}) >= x + 2}
    IN  IF open = {} THEN s
        ELSE SubSeq(s, 1, Min(open) - 1)
             \o RemoveTags(SubSeq(s, Min(close(Min(open))) + 1, Len(s)))

RECURSIVE StripStopWords(_, _)
\* the loop of clean_author over AUTHOR_STOP_WORDS, from stop word k on
\* (an empty string has nothing left to replace)
StripStopWords(out, k) ==
    IF k > Len(AUTHOR_STOP_WORDS) \/ out = <<>> THEN out
    ELSE StripStopWords(replace(out, AUTHOR_STOP_WORDS[k], <<>>), k + 1)

clean_author(s) ==
    trim_matches(RemoveTags(StripStopWords(trim(s), 1)),
                 {".", ",", "-", "/"} \cup Whitespace)

contains_digits(s) == \E x \in 1..Len(s) : is_ascii_digit(s[x])

is_valid_name(s) ==
    LET word_count == Len(split_whitespace(s))
    IN  /\ word_count > 1 /\ word_count < 5
        /\ ~contains_digits(s)
        /\ ~contains(s, <<"<">>) /\ ~contains(s, <<">">>)

RECURSIVE ParseTokens_keep_all_words(_)
\* variant of the loop of parse_byline that keeps every word of a token
ParseTokens_keep_all_words(tokens) ==
    IF tokens = <<>> THEN <<>>
    ELSE LET t == trim(Head(tokens))
         IN  IF is_valid_name(t)
             THEN <<clean_author(t)>> \o ParseTokens_keep_all_words(Tail(tokens))
             ELSE ParseTokens_keep_all_words(Tail(tokens))

RECURSIVE ParseTokens(_)
\* the loop of parse_byline over the tokens
ParseTokens(tokens) ==
    IF tokens = <<>> THEN <<>>
    ELSE LET t == trim(Head(tokens))
             words == split_whitespace(t)
             name == IF Len(words) > 2 THEN join(SubSeq(words, 1, 2), <<" ">>) ELSE t
         IN  IF is_valid_name(t) THEN <<clean_author(name)>> \o ParseTokens(Tail(tokens))
             ELSE ParseTokens(Tail(tokens))

parse_byline(s) ==
    LET s1 == [x \in 1..Len(s) |-> IF s[x] \in {"LF", "TAB", "CR", "NBSP"} THEN " " ELSE s[x]]
    IN  ParseTokens(split(s1, {"MIDDOT", ",", "|", "/", "NBSP"}))

RECURSIVE PushTexts(_)
PushTexts(texts) ==
    IF texts = <<>> THEN <<>>
    ELSE (IF is_noise_text_chars(Head(texts)) THEN <<>> ELSE Head(texts) \o <<" ">>)
         \o PushTexts(Tail(texts))

\* text::author_text of an element whose children are visible text nodes
author_text(el) ==
    IF el.tag = "meta" THEN (IF el.hasContent THEN el.content ELSE <<>>)
    ELSE trim(PushTexts(el.texts))

\* the content an element contributes: the content attribute of a <meta>,
\* author_text otherwise or when that is empty
author_content(el) ==
    LET content == IF el.tag = "meta" /\ el.hasContent THEN el.content ELSE <<>>
    IN  IF content = <<>> THEN author_text(el) ELSE content

\* how many entries of AUTHOR_VALS the attribute (name, value) matches
author_val_matches(name, value) ==
    IF Lower(name) \in Range(AUTHOR_ATTRS)
    THEN Cardinality({x \in 1..Len(AUTHOR_VALS) : Contains(Lower(value), AUTHOR_VALS[x])})
    ELSE 0

RECURSIVE Repeat(_, _)
Repeat(seq, n) == IF n = 0 THEN <<>> ELSE seq \o Repeat(seq, n - 1)

RECURSIVE CollectAttrs(_, _)
\* the names one element pushes: once per matching (attribute, AUTHOR_VALS entry)
CollectAttrs(el, attrs) ==
    IF attrs = <<>> THEN <<>>
    ELSE Repeat(SelectSeq(parse_byline(author_content(el)), LAMBDA n : n # <<>>),
                author_val_matches(Head(attrs)[1], Head(attrs)[2]))
         \o CollectAttrs(el, Tail(attrs))

RECURSIVE CollectAuthors(_)
\* the loop of authors() over the nodes of the document
CollectAuthors(els) ==
    IF els = <<>> THEN <<>>
    ELSE (IF Head(els).tag \in {"script", "style", "time"} THEN <<>>
          ELSE CollectAttrs(Head(els), Head(els).attrs))
         \o CollectAuthors(Tail(els))

RECURSIVE Dedup(_, _)
\* the deduplication loop of authors(); seen holds the lowercase keys
Dedup(names, seen) ==
    IF names = <<>> THEN <<>>
    ELSE LET a == clean_author(Head(names))
             key == to_lowercase(a)
         IN  IF is_valid_name(a) /\ a # <<>> /\ key \notin seen
             THEN <<a>> \o Dedup(Tail(names), seen \cup {key})
             ELSE Dedup(Tail(names), seen)

\* sort_by_key with the author itself as the key (case-sensitive order)
sort_key_raw(a) == a

\* the key result.sort_by compares
sort_key(a) == to_lowercase(a)

RECURSIVE InsertSorted(_, _)
InsertSorted(sorted, a) ==
    IF sorted = <<>> THEN <<a>>
    ELSE IF StrLess(sort_key(a), sort_key(Head(sorted))) THEN <<a>> \o sorted
    ELSE <<Head(sorted)>> \o InsertSorted(Tail(sorted), a)

RECURSIVE SortBy(_)
\* result.sort_by(..): a stable sort
SortBy(names) ==
    IF names = <<>> THEN <<>>
    ELSE InsertSorted(SortBy(SubSeq(names, 1, Len(names) - 1)), names[Len(names)])

authors(els) == SortBy(Dedup(CollectAuthors(els), {}))

(***************************************************************************)
(* The documents authors() is run on: the elements of the document in      *)
(* order, each with its tag, its attributes (name, value), the content     *)
(* attribute of a <meta> and the visible text nodes below another element. *)
(***************************************************************************)
MaxPieces == 3      \* pieces of a byline content
NestDepth == 2      \* stop words inserted into a byline, one inside another
MaxEls == 2         \* author elements of a document

Meta(name, value, content) ==
    [tag |-> "meta", attrs |-> << <<name, value>> >>, hasContent |-> TRUE,
     content |-> content, texts |-> <<>>]

Elem(tag, name, value, texts) ==
    [tag |-> tag, attrs |-> << <<name, value>> >>, hasContent |-> FALSE,
     content |-> <<>>, texts |-> texts]

AuthorPieces ==
    { <<"B", "y", " ">>,
      <<"J", "a", "n", "e", " ", "D", "o", "e">>,
      <<"J", "A", "N", "E", " ", "D", "O", "E">>,
      <<"a", "n", "n", " ", "B", "o">>,
      <<"Z", "e", "d", " ", "A", "l">>,
      <<",", " ">>,
      <<" ", "R", "e", "u", "t", "e", "r", "s">>,
      <<"<", "b", ">">>,
      <<"1">>,
      <<".">>,
      <<" ", "S", "m", "i", "t", "h">>,
      <<"/">> }

RECURSIVE Pieced(_, _)
\* the concatenations of 1..n pieces of P
Pieced(P, n) ==
    IF n = 0 THEN {}
    ELSE P \cup {a \o b : a \in Pieced(P, n - 1), b \in P}

Insert(str, pos, w) == SubSeq(str, 1, pos) \o w \o SubSeq(str, pos + 1, Len(str))

RECURSIVE Nested(_, _, _)
\* base with up to n words of W inserted, each possibly inside an earlier one
Nested(base, W, n) ==
    IF n = 0 THEN {base}
    ELSE LET prev == Nested(base, W, n - 1)
         IN  prev \cup UNION {{Insert(str, pos, w) : pos \in 0..Len(str), w \in W} : str \in prev}

\* <meta name="author" content="By Jane Doe, JANE DOE, Reuters">
FixtureByline == <<"B", "y", " ", "J", "a", "n", "e", " ", "D", "o", "e", ",", " ", "J", "A", "N", "E", " ", "D", "O", "E", ",", " ", "R", "e", "u", "t", "e", "r", "s">>

\* <meta name="author" content="Jane Doe Smith, By Zed Al">
TruncatedByline == <<"J", "a", "n", "e", " ", "D", "o", "e", " ", "S", "m", "i", "t", "h", ",", " ", "B", "y", " ", "Z", "e", "d", " ", "A", "l">>

BylineDocs ==
    {<<Meta("name", "author", c)>> :
        c \in Pieced(AuthorPieces, MaxPieces)
              \cup Nested(<<"B", "y", " ", "D", "o", "e">>, {<<"B", "y">>, <<"A", "P">>}, NestDepth)
              \cup {FixtureByline, TruncatedByline}}

AuthorElements ==
    {Meta("name", "author", c) : c \in {<<"J", "a", "n", "e", " ", "D", "o", "e">>, <<"J", "A", "N", "E", " ", "D", "O", "E", ",", " ", "a", "n", "n", " ", "B", "o">>}}
    \cup {Elem("span", "class", "article-author", <<c>>) : c \in {<<"J", "a", "n", "e", " ", "D", "o", "e">>, <<"Z", "e", "d", " ", "A", "l">>}}
    \cup {Elem("div", "id", "Author", <<<<"B", "y">>, c>>) : c \in {<<"B", "o", "b", " ", "R", "o", "e">>, <<"Z", "e", "d", " ", "A", "l">>}}
    \cup {Elem("a", "rel", "byline", <<c>>) : c \in {<<"J", "A", "N", "E", " ", "D", "O", "E", ",", " ", "a", "n", "n", " ", "B", "o">>}}
    \cup {Elem("script", "class", "author", <<c>>) : c \in {<<"B", "o", "b", " ", "R", "o", "e">>}}
    \cup {Elem("a", "href", "author", <<c>>) : c \in {<<"B", "o", "b", " ", "R", "o", "e">>}}

ElementDocs == UNION {[1..n -> AuthorElements] : n \in 0..MaxEls}

AuthorDocs == BylineDocs \cup ElementDocs

InitAuthors ==
    /\ a_doc \in AuthorDocs
    /\ a_out = <<>>
    /\ pc = "start"
    /\ doc = <<>> /\ lang = "english" /\ NodeIdle
    /\ t_doc = <<>> /\ t_out = <<>>
    /\ c_doc = <<>> /\ c_out = <<>> /\ m_doc = <<>> /\ m_out = <<>> /\ FindIdle

\* authors(doc)
Authors ==
    /\ pc = "start"
    /\ a_out' = authors(a_doc)
    /\ pc' = "done"
    /\ UNCHANGED <<doc, lang, txt_nodes, i, starting_boost, nodes_scores, boost_log,
                   upscore_log, result, path, a_doc, t_doc, t_out,
                   c_doc, c_out, m_doc, m_out,
                   f_next, f_out, f_seen, l_line, l_out>>

NextAuthors == Authors

SpecAuthors == InitAuthors /\ [][NextAuthors]_vars

(***************************************************************************)
(* extract_title.rs and extract_meta.rs: the title extractor.  A document  *)
(* is the sequence of its nodes in document order; an element carries its  *)
(* tag, whether it is below <head>, and its attributes; its text is the    *)
(* text node that follows it.                                              *)
(***************************************************************************)
MOTLEY_REPLACEMENT == <<<<"&", "#", "6", "5", "5", "3", "3", ";">>, <<>> >>
TITLE_REPLACEMENTS == <<<<"&", "r", "a", "q", "u", "o", ";">>, <<"RAQUO">> >>
TITLE_META_INFO ==
    <<"dc.title", "og:title", "headline", "articletitle", "article-title",
      "parsely-title", "title", "twitter:title">>

NoText == [some |-> FALSE, text |-> <<>>]
SomeText(str) == [some |-> TRUE, text |-> str]

\* Node::as_text: the text of a text node, None for every other node
as_text(n) == IF n.kind = "text" THEN SomeText(n.text) ELSE NoText

\* doc.find(Name(tag)): the elements of that name, in document order
find_name(d, tag) == SelectSeq(d, LAMBDA n : n.kind = "element" /\ n.tag = tag)

\* meta_content(doc, Attr(attrName, value)): the first non-empty trimmed
\* content of a <meta> below <head> with that attribute
meta_content(d, attrName, value) ==
    LET hits == SelectSeq(d, LAMBDA n :
                    /\ n.kind = "element" /\ n.inHead /\ n.tag = "meta"
                    /\ \E x \in 1..Len(n.attrs) : n.attrs[x] = <<attrName, value>>
                    /\ n.hasContent /\ trim(n.content) # <<>>)
    IN  IF hits = <<>> THEN NoText ELSE SomeText(trim(hits[1].content))

\* postprocess_title without its final trim
postprocess_title_no_trim(t) ==
    replace(replace(t, MOTLEY_REPLACEMENT[1], MOTLEY_REPLACEMENT[2]),
            TITLE_REPLACEMENTS[1], TITLE_REPLACEMENTS[2])

postprocess_title(t) ==
    trim(replace(replace(t, MOTLEY_REPLACEMENT[1], MOTLEY_REPLACEMENT[2]),
                 TITLE_REPLACEMENTS[1], TITLE_REPLACEMENTS[2]))

RECURSIVE MetaTitle_name_first(_, _)
\* step 1 with the name meta tried before the property meta
MetaTitle_name_first(d, k) ==
    IF k > Len(TITLE_META_INFO) THEN NoText
    ELSE LET p == meta_content(d, "property", TITLE_META_INFO[k])
             m == meta_content(d, "name", TITLE_META_INFO[k])
         IN  IF m.some /\ trim(m.text) # <<>> THEN SomeText(postprocess_title(trim(m.text)))
             ELSE IF p.some /\ trim(p.text) # <<>>
                  THEN SomeText(postprocess_title(trim(p.text)))
             ELSE MetaTitle_name_first(d, k + 1)

RECURSIVE MetaTitle(_, _)
\* step 1: for each key in order, the property meta and then the name meta
MetaTitle(d, k) ==
    IF k > Len(TITLE_META_INFO) THEN NoText
    ELSE LET p == meta_content(d, "property", TITLE_META_INFO[k])
             m == meta_content(d, "name", TITLE_META_INFO[k])
         IN  IF p.some /\ trim(p.text) # <<>> THEN SomeText(postprocess_title(trim(p.text)))
             ELSE IF m.some /\ trim(m.text) # <<>>
                  THEN SomeText(postprocess_title(trim(m.text)))
             ELSE MetaTitle(d, k + 1)

\* doc.find(Name("h1")).filter_map(|n| n.as_text().map(trim))
h1_list(d) ==
    LET hs == SelectSeq(find_name(d, "h1"), LAMBDA n : as_text(n).some)
    IN  [x \in 1..Len(hs) |-> trim(as_text(hs[x]).text)]

\* sorted.last() after the stable sort_by_key(|s| s.len())
longest(list) ==
    list[CHOOSE x \in 1..Len(list) :
            /\ \A y \in 1..Len(list) : ByteLen(list[y]) <= ByteLen(list[x])
            /\ \A y \in (x + 1)..Len(list) : ByteLen(list[y]) < ByteLen(list[x])]

\* doc.find(Name("title")).next().and_then(|n| n.as_text().map(str::trim))
title_tag(d) ==
    LET ts == find_name(d, "title")
    IN  IF ts = <<>> THEN NoText
        ELSE IF as_text(ts[1]).some THEN SomeText(trim(as_text(ts[1]).text))
        ELSE NoText

is_alphanumeric(c) == c \in Range(Uppercase) \cup Range(Lowercase) \cup Digits

\* the closure filter: alphanumeric characters only, lowercased
filter(str) == to_lowercase(SelectSeq(str, is_alphanumeric))

RECURSIVE MetaFallback(_, _)
\* title_text_fb: the first meta content found, key by key
MetaFallback(d, k) ==
    IF k > Len(TITLE_META_INFO) THEN <<>>
    ELSE LET p == meta_content(d, "property", TITLE_META_INFO[k])
             m == meta_content(d, "name", TITLE_META_INFO[k])
         IN  IF p.some THEN trim(p.text)
             ELSE IF m.some THEN trim(m.text)
             ELSE MetaFallback(d, k + 1)

RECURSIVE SplitStrAcc(_, _, _)
SplitStrAcc(str, pat, cur) ==
    IF str = <<>> THEN <<cur>>
    ELSE IF starts_with(str, pat)
         THEN <<cur>> \o SplitStrAcc(SubSeq(str, Len(pat) + 1, Len(str)), pat, <<>>)
    ELSE SplitStrAcc(Tail(str), pat, Append(cur, Head(str)))

\* str::split(delimiter) for a string delimiter
split_str(str, pat) == SplitStrAcc(str, pat, <<>>)

DELIMITERS == << <<"|">>, <<"-">>, <<"_">>, <<"/">>, <<" ", "RAQUO", " ">> >>

RECURSIVE PickPiece(_, _, _, _, _)
\* large_text_index: the first piece holding the h1 hint, else the first
\* longest piece
PickPiece(pieces, k, hint, large_text_length, large_text_index) ==
    IF k > Len(pieces) THEN large_text_index
    ELSE LET current == trim(pieces[k])
         IN  IF hint # <<>> /\ contains(filter(current), hint) THEN k
             ELSE IF ByteLen(current) > large_text_length
                  THEN PickPiece(pieces, k + 1, hint, ByteLen(current), k)
             ELSE PickPiece(pieces, k + 1, hint, large_text_length, large_text_index)

RECURSIVE DelimiterSplit(_, _, _)
\* the split on the first delimiter the title text contains
DelimiterSplit(title_text, title_text_h1, k) ==
    IF k > Len(DELIMITERS) THEN <<>>
    ELSE IF contains(title_text, DELIMITERS[k])
         THEN LET pieces == split_str(title_text, DELIMITERS[k])
              IN  trim(pieces[PickPiece(pieces, 1, filter(title_text_h1), 0, 1)])
    ELSE DelimiterSplit(title_text, title_text_h1, k + 1)

\* step 4: the heuristics fallback
Heuristics(d) ==
    LET hl == h1_list(d)
        title_text_h1 == IF hl = <<>> THEN <<>> ELSE longest(hl)
        title_text == IF title_tag(d).some THEN title_tag(d).text ELSE <<>>
        title_text_fb == MetaFallback(d, 1)
        filter_title_text == filter(title_text)
        filter_title_text_h1 == filter(title_text_h1)
        filter_title_text_fb == filter(title_text_fb)
        heuristic ==
            IF title_text_h1 # <<>> /\ title_text_h1 = title_text THEN title_text_h1
            ELSE IF filter_title_text_h1 # <<>> /\ filter_title_text_h1 = filter_title_text_fb
                 THEN title_text_h1
            ELSE IF /\ filter_title_text_h1 # <<>>
                    /\ contains(filter_title_text, filter_title_text_h1)
                    /\ filter_title_text_fb # <<>>
                    /\ contains(filter_title_text, filter_title_text_fb)
                    /\ ByteLen(title_text_h1) > ByteLen(title_text_fb)
                 THEN title_text_h1
            ELSE IF /\ filter_title_text_fb # <<>>
                    /\ filter_title_text_fb # filter_title_text
                    /\ starts_with(filter_title_text, filter_title_text_fb)
                 THEN title_text_fb
            ELSE <<>>
        split_candidate ==
            IF heuristic = <<>> /\ title_text # <<>>
            THEN DelimiterSplit(title_text, title_text_h1, 1)
            ELSE heuristic
        candidate ==
            IF title_text_h1 # <<>> /\ filter_title_text_h1 = filter(split_candidate)
            THEN title_text_h1
            ELSE split_candidate
    IN  IF candidate # <<>> THEN SomeText(postprocess_title(candidate)) ELSE NoText

\* title(doc)
title(d) ==
    LET m == MetaTitle(d, 1)
        hl == h1_list(d)
        tt == title_tag(d)
    IN  IF m.some THEN m
        ELSE IF hl # <<>> /\ Len(split_whitespace(longest(hl))) > 2
             THEN SomeText(postprocess_title(join(split_whitespace(longest(hl)), <<" ">>)))
        ELSE IF tt.some /\ trim(tt.text) # <<>> THEN SomeText(postprocess_title(trim(tt.text)))
        ELSE Heuristics(d)

(***************************************************************************)
(* The documents title() is run on.                                        *)
(***************************************************************************)
MaxTitlePieces == 3     \* pieces of a meta content
MaxTitleEls == 3        \* title sources of a document

TMeta(inHead, attrName, value, hasContent, content) ==
    << [kind |-> "element", tag |-> "meta", inHead |-> inHead,
        attrs |-> << <<attrName, value>> >>, hasContent |-> hasContent,
        content |-> content, text |-> <<>>] >>

TElem(tag, inHead, str) ==
    << [kind |-> "element", tag |-> tag, inHead |-> inHead, attrs |-> <<>>,
        hasContent |-> FALSE, content |-> <<>>, text |-> <<>>],
       [kind |-> "text", tag |-> "#text", inHead |-> inHead, attrs |-> <<>>,
        hasContent |-> FALSE, content |-> <<>>, text |-> str] >>

TitlePieces ==
    { <<"B", "y", " ">>,
      <<"J", "o", "h", "n">>,
      <<"<", "b", ">">>,
      <<"&", "#", "6", "5", "5", "3", "3", ";">>,
      <<"&", "r", "a", "q", "u", "o", ";">>,
      <<" ">>,
      <<"H", "e", "l", "l", "o">>,
      <<"&", "#", "6">>,
      <<"5", "5", "3", "3", ";">> }

PiecedTitleDocs ==
    {TMeta(TRUE, "property", "og:title", TRUE, c) : c \in Pieced(TitlePieces, MaxTitlePieces)}

TitleSources ==
    { TMeta(TRUE, "property", "og:title", TRUE, <<"B", "y", " ", "J", "o", "h", "n", " ", "<", "b", ">">>),
      TMeta(TRUE, "name", "dc.title", TRUE, <<" ", "H", "e", "l", "l", "o", " ", "W", "o", "r", "l", "d", " ", "A", "g", "a", "i", "n", " ">>),
      TMeta(TRUE, "name", "og:title", TRUE, <<"&", "r", "a", "q", "u", "o", ";", " ", "N", "e", "w", "s">>),
      TMeta(TRUE, "property", "twitter:title", TRUE, <<"S", "i", "t", "e">>),
      TMeta(FALSE, "property", "og:title", TRUE, <<"B", "o", "d", "y", " ", "T", "i", "t", "l", "e">>),
      TMeta(TRUE, "name", "description", TRUE, <<"D", "e", "s", "c">>),
      TMeta(TRUE, "property", "og:title", FALSE, <<>>),
      TMeta(TRUE, "property", "dc.title", TRUE, <<" ", " ">>),
      TElem("h1", FALSE, <<"H", "e", "l", "l", "o", " ", "W", "o", "r", "l", "d", " ", "A", "g", "a", "i", "n">>),
      TElem("h1", FALSE, <<"H", "i">>),
      TElem("title", TRUE, <<"H", "e", "l", "l", "o", " ", "W", "o", "r", "l", "d", " ", "A", "g", "a", "i", "n", " ", "|", " ", "S", "i", "t", "e">>) }

RECURSIVE Flatten(_)
Flatten(seqs) == IF seqs = <<>> THEN <<>> ELSE Head(seqs) \o Flatten(Tail(seqs))

SourceDocs == {Flatten(f) : f \in UNION {[1..n -> TitleSources] : n \in 0..MaxTitleEls}}

\* <title>Hello | Site</title>, and <h1>Foo</h1> with
\* <meta property="og:title" content="A Proper Title"> in <head>
FixtureTitleDocs ==
    { TElem("title", TRUE, <<"H", "e", "l", "l", "o", " ", "|", " ", "S", "i", "t", "e">>),
      TMeta(TRUE, "property", "og:title", TRUE, <<"A", " ", "P", "r", "o", "p", "e", "r", " ", "T", "i", "t", "l", "e">>)
          \o TElem("h1", FALSE, <<"F", "o", "o">>) }

TitleDocs == PiecedTitleDocs \cup SourceDocs \cup FixtureTitleDocs

InitTitle ==
    /\ t_doc \in TitleDocs
    /\ t_out = NoText
    /\ pc = "start"
    /\ doc = <<>> /\ lang = "english" /\ NodeIdle
    /\ a_doc = <<>> /\ a_out = <<>>
    /\ c_doc = <<>> /\ c_out = <<>> /\ m_doc = <<>> /\ m_out = <<>> /\ FindIdle

\* title(doc)
Title ==
    /\ pc = "start"
    /\ t_out' = title(t_doc)
    /\ pc' = "done"
    /\ UNCHANGED <<doc, lang, txt_nodes, i, starting_boost, nodes_scores, boost_log,
                   upscore_log, result, path, a_doc, a_out, t_doc,
                   c_doc, c_out, m_doc, m_out,
                   f_next, f_out, f_seen, l_line, l_out>>

NextTitle == Title

SpecTitle == InitTitle /\ [][NextTitle]_vars

(***************************************************************************)
(* text.rs: ArticleTextNode::clean_text, on documents whose text nodes     *)
(* carry their characters.                                                 *)
(***************************************************************************)
\* the Document of a pre-order listing whose text entries hold characters
CharDoc(flat) ==
    LET b == Build([x \in 1..Len(flat) |-> [flat[x] EXCEPT !.txt = ""]])
    IN  [x \in DOMAIN b |-> [b[x] EXCEPT !.text = flat[x + 1].txt]]

RECURSIVE CharRange(_, _, _)
\* the characters of the text nodes lo..hi, in document order
CharRange(d, lo, hi) ==
    IF lo > hi THEN <<>>
    ELSE IF IsElement(d, lo) THEN CharRange(d, lo + 1, hi)
    ELSE d[lo].text \o CharRange(d, lo + 1, hi)

\* Node::text() as characters
node_text(d, n) ==
    IF ~IsElement(d, n) THEN d[n].text ELSE CharRange(d, n + 1, SubtreeEnd(d, n, n))

\* is_promotional_footer with `any` in place of `all`
is_promotional_footer_any(d, para) ==
    LET links == FindName(d, para, "a")
    IN  /\ links # {}
        /\ \E l \in links :
              attr(d, l, "rel") # Absent /\ Contains(attr(d, l, "rel"), "nofollow")

is_promotional_footer(d, para) ==
    LET links == FindName(d, para, "a")
    IN  /\ links # {}
        /\ \A l \in links :
              attr(d, l, "rel") # Absent /\ Contains(attr(d, l, "rel"), "nofollow")

RECURSIVE TextParts(_, _)
\* the loop of extract_clean_text over the paragraphs S, in document order
TextParts(d, S) ==
    IF S = {} THEN <<>>
    ELSE LET para == Min(S)
             trimmed == trim(node_text(d, para))
         IN  (IF \/ is_noise_node(d, para)
                 \/ is_promotional_footer(d, para)
                 \/ trimmed = <<>>
                 \/ is_noise_text_chars(trimmed)
              THEN <<>> ELSE <<trimmed>>)
             \o TextParts(d, S \ {para})

extract_clean_text(d, n) == join(TextParts(d, FindName(d, n, "p")), <<" ">>)

\* str::lines: the pieces between "\n", a final empty piece dropped and one
\* trailing "\r" removed from each
lines(str) ==
    LET parts == split(str, {"LF"})
        kept == IF parts[Len(parts)] = <<>> THEN SubSeq(parts, 1, Len(parts) - 1) ELSE parts
    IN  [x \in 1..Len(kept) |->
            IF kept[x] # <<>> /\ kept[x][Len(kept[x])] = "CR"
            THEN SubSeq(kept[x], 1, Len(kept[x]) - 1) ELSE kept[x]]

\* variant of is_code_like_line that looks for "()." in one piece
is_code_like_line_call_dot(str) ==
    LET line == trim(str)
        word_count == Len(split_whitespace(line))
        special_char_count ==
            Cardinality({x \in 1..Len(line) :
                            ~is_alphanumeric(line[x]) /\ ~is_whitespace(line[x])})
    IN  \/ (/\ word_count > 0
            /\ 10 * special_char_count > 3 * ByteLen(line)
            /\ word_count < 5)
        \/ (contains(line, <<";">>) /\ contains(line, <<"=">>) /\ ~contains(line, <<" ">>))
        \/ contains(line, <<"(", ")", ".">>)
        \/ starts_with(line, <<"s", "r", "c", "=">>)
        \/ starts_with(line, <<"a", "l", "t", "=">>)
        \/ starts_with(line, <<"c", "l", "a", "s", "s", "=">>)
        \/ starts_with(line, <<"h", "e", "i", "g", "h", "t", "=">>)

is_code_like_line(str) ==
    LET line == trim(str)
        word_count == Len(split_whitespace(line))
        special_char_count ==
            Cardinality({x \in 1..Len(line) :
                            ~is_alphanumeric(line[x]) /\ ~is_whitespace(line[x])})
    IN  \/ (/\ word_count > 0
            /\ 10 * special_char_count > 3 * ByteLen(line)
            /\ word_count < 5)
        \/ (contains(line, <<";">>) /\ contains(line, <<"=">>) /\ ~contains(line, <<" ">>))
        \/ (contains(line, <<"(", ")">>) /\ contains(line, <<".">>))
        \/ starts_with(line, <<"s", "r", "c", "=">>)
        \/ starts_with(line, <<"a", "l", "t", "=">>)
        \/ starts_with(line, <<"c", "l", "a", "s", "s", "=">>)
        \/ starts_with(line, <<"h", "e", "i", "g", "h", "t", "=">>)

\* post_process_text keeping the code-like lines
post_process_text_keep_code(str) ==
    LET nb == [x \in 1..Len(str) |-> IF str[x] = "NBSP" THEN " " ELSE str[x]]
        trimmed == [x \in 1..Len(lines(nb)) |-> trim(lines(nb)[x])]
    IN  join(SelectSeq(trimmed, LAMBDA l : l # <<>>), <<"LF">>)

\* post_process_text without the trim of each line
post_process_text_no_trim(str) ==
    LET nb == [x \in 1..Len(str) |-> IF str[x] = "NBSP" THEN " " ELSE str[x]]
    IN  join(SelectSeq(lines(nb), LAMBDA l : trim(l) # <<>> /\ ~is_code_like_line(trim(l))),
             <<"LF">>)

post_process_text(str) ==
    LET nb == [x \in 1..Len(str) |-> IF str[x] = "NBSP" THEN " " ELSE str[x]]
        trimmed == [x \in 1..Len(lines(nb)) |-> trim(lines(nb)[x])]
    IN  join(SelectSeq(trimmed, LAMBDA l : l # <<>> /\ ~is_code_like_line(l)), <<"LF">>)

clean_text(d, n) == post_process_text(extract_clean_text(d, n))

(***************************************************************************)
(* is_code_like_line on the lines post_process_text calls it with: trimmed *)
(* and not empty.  A line is up to MaxLineTokens tokens, written one after *)
(* the other or separated by spaces.                                       *)
(***************************************************************************)
MaxLineTokens == 3

LineTokens == { <<"a", "b">>, <<"x", "1">>, <<";">>, <<"=">>, <<"(", ")">>, <<".">>,
                <<"s", "r", "c", "=">>, <<"c", "l", "a", "s", "s", "=">>, <<"MIDDOT">>,
                <<"a", " ", "b", " ", "c">>, <<"#", " ", "#", " ", "#">> }

Lines == {join(toks, sep) : toks \in UNION {[1..m -> LineTokens] : m \in 1..MaxLineTokens},
                            sep \in {<<>>, <<" ">>}}

InitLine ==
    /\ l_line \in Lines
    /\ l_out = FALSE
    /\ pc = "line"
    /\ doc = <<>> /\ lang = "english" /\ NodeIdle
    /\ a_doc = <<>> /\ a_out = <<>> /\ t_doc = <<>> /\ t_out = <<>>
    /\ c_doc = <<>> /\ c_out = <<>> /\ m_doc = <<>> /\ m_out = <<>>
    /\ f_next = 0 /\ f_out = <<>> /\ f_seen = <<>>

\* the call of is_code_like_line in post_process_text
CodeLikeLine ==
    /\ pc = "line"
    /\ l_out' = is_code_like_line(l_line)
    /\ pc' = "done"
    /\ UNCHANGED <<doc, lang, txt_nodes, i, starting_boost, nodes_scores, boost_log,
                   upscore_log, result, path, a_doc, a_out, t_doc, t_out,
                   c_doc, c_out, m_doc, m_out, f_next, f_out, f_seen, l_line>>

NextLine == CodeLikeLine

SpecLine == InitLine /\ [][NextLine]_vars

(***************************************************************************)
(* The documents clean_text() is run on: an <article> below <body>, alone  *)
(* or inside a wrapper, holding paragraphs and other items, followed by a  *)
(* paragraph outside of it.                                                *)
(***************************************************************************)
MaxCleanItems == 2      \* items below the selected article node

CleanTexts ==
    { <<"H", "e", "l", "l", "o", " ", "w", "o", "r", "l", "d">>,
      <<"a", " ", " ", "b">>,
      <<"a", "TAB", "TAB", "b", " ", "c">>,
      <<"o", "n", "e", "NBSP", "t", "w", "o">>,
      <<"H", "i", " ", "t", "h", "e", "r", "e", "LF", "x", "=", "1", ";", "LF", "b", "y", "e">>,
      <<" ">>,
      <<"h", "t", "t", "p", "s", ":", "/", "/", "x", ".", "y", "/", "z">>,
      <<"e", "n", "d", "CR", "LF", " ", " ", "g", "o">>,
      <<"f", "(", ")", " ", "c", "a", "l", "l", "s", ".">>,
      <<" ", "l", "e", "a", "d">>,
      <<"1", "0", " ", "2", "0">> }

Sponsor == <<"S", "p", "o", "n", "s", "o", "r">>

CleanItem(k, t, dep) ==
    CASE k = "p"         -> <<E(dep, "p"), T(dep + 1, t)>>
      [] k = "pStrong"   -> <<E(dep, "p"), E(dep + 1, "strong"), T(dep + 2, t)>>
      [] k = "pLink"     -> <<E(dep, "p"), T(dep + 1, t), E(dep + 1, "a"), T(dep + 2, Sponsor)>>
      [] k = "pNofollow" -> <<E(dep, "p"), T(dep + 1, t), E(dep + 1, "aRelNofollow"),
                              T(dep + 2, Sponsor)>>
      [] k = "pNoopener" -> <<E(dep, "p"), E(dep + 1, "aNofollow"), T(dep + 2, Sponsor)>>
      [] k = "pExternal" -> <<E(dep, "p"), E(dep + 1, "aExternal"), T(dep + 2, Sponsor)>>
      [] k = "pMixed"    -> <<E(dep, "p"), E(dep + 1, "aRelNofollow"), T(dep + 2, Sponsor),
                              E(dep + 1, "a"), T(dep + 2, t)>>
      [] k = "pBoth"     -> <<E(dep, "p"), E(dep + 1, "aRelNofollow"), T(dep + 2, Sponsor),
                              E(dep + 1, "aNofollow"), T(dep + 2, t)>>
      [] k = "pCreative" -> <<E(dep, "pCreative"), T(dep + 1, t)>>
      [] k = "figureP"   -> <<E(dep, "figure"), E(dep + 1, "p"), T(dep + 2, t)>>
      [] k = "sidebarP"  -> <<E(dep, "divSidebar"), E(dep + 1, "p"), T(dep + 2, t)>>
      [] k = "div"       -> <<E(dep, "div"), T(dep + 1, t)>>
      [] OTHER           -> <<T(dep, t)>>

CleanItems(dep) ==
    {CleanItem("p", t, dep) : t \in CleanTexts}
    \cup {CleanItem(k, <<"H", "e", "l", "l", "o", " ", "w", "o", "r", "l", "d">>, dep) :
            k \in {"pStrong", "pLink", "pNofollow", "pNoopener", "pExternal", "pMixed",
                   "pBoth", "pCreative", "figureP", "sidebarP", "div", "bare"}}

\* the document and the index of the selected article node
CleanDoc(wrap, dep, items) ==
    [d |-> CharDoc(<<E(0, "html"), E(1, "head"), E(1, "body")>> \o wrap
                   \o <<E(dep, "article")>> \o Flatten(items)
                   \o <<E(2, "p"), T(3, <<"O", "u", "t", "s", "i", "d", "e", " ", "t", "e", "x", "t">>)>>),
     node |-> dep + 1]

CleanDocs ==
    {CleanDoc(<<>>, 2, items) :
        items \in UNION {[1..n -> CleanItems(3)] : n \in 0..MaxCleanItems}}
    \cup {CleanDoc(<<E(2, "divFooter")>>, 3, items) :
        items \in UNION {[1..n -> CleanItems(4)] : n \in 0..MaxCleanItems}}

InitText ==
    /\ c_doc \in CleanDocs
    /\ c_out = <<>>
    /\ pc = "start"
    /\ doc = <<>> /\ lang = "english" /\ NodeIdle
    /\ a_doc = <<>> /\ a_out = <<>> /\ t_doc = <<>> /\ t_out = <<>>
    /\ m_doc = <<>> /\ m_out = <<>> /\ FindIdle

\* ArticleTextNode::clean_text
CleanText ==
    /\ pc = "start"
    /\ c_out' = clean_text(c_doc.d, c_doc.node)
    /\ pc' = "done"
    /\ UNCHANGED <<doc, lang, txt_nodes, i, starting_boost, nodes_scores, boost_log,
                   upscore_log, result, path, a_doc, a_out, t_doc, t_out, c_doc,
                   m_doc, m_out,
                   f_next, f_out, f_seen, l_line, l_out>>

NextText == CleanText

SpecText == InitText /\ [][NextText]_vars

(***************************************************************************)
(* extract_canonical.rs, extract_pb_date.rs, extract_meta_language.rs: the *)
(* metadata extractors.  The document is the sequence of its elements; an  *)
(* attribute whose value the code parses holds that value as characters.   *)
(***************************************************************************)
\* Node::attr(name) of an element record
node_attr(n, name) ==
    LET S == {x \in 1..Len(n.attrs) : n.attrs[x][1] = name}
    IN  IF S = {} THEN NoText ELSE SomeText(n.attrs[Min(S)][2])

\* the first position of a character of P in str, Len(str) + 1 if none
FirstOf(str, P) == Min({x \in 1..Len(str) : str[x] \in P} \cup {Len(str) + 1})

\* Url::parse(str).ok() as the serialisation of the Url: surrounding spaces
\* and control characters are dropped; an input without a scheme is
\* relative and fails; for http and https the host must not be empty, it is
\* lowercased, and an empty path becomes "/"
url_parse(str) ==
    LET input == trim_matches(str, {" ", "TAB", "LF", "CR"})
        colon == FirstOf(input, {":"})
        scheme == to_lowercase(SubSeq(input, 1, colon - 1))
        rest == SubSeq(input, colon + 1, Len(input))
        after == TrimStartMatches(rest, {"/"})
        host == SubSeq(after, 1, FirstOf(after, {"/", "?", "#"}) - 1)
        tail == SubSeq(after, Len(host) + 1, Len(after))
    IN  IF \/ colon > Len(input) \/ colon = 1
           \/ scheme[1] \notin Range(Lowercase)
           \/ \E x \in 1..Len(scheme) :
                 scheme[x] \notin Range(Lowercase) \cup Digits \cup {"+", "-", "."}
        THEN NoText
        ELSE IF scheme \in {<<"h", "t", "t", "p">>, <<"h", "t", "t", "p", "s">>}
             THEN IF host = <<>> THEN NoText
                  ELSE SomeText(scheme \o <<":", "/", "/">> \o to_lowercase(host)
                                \o (IF tail = <<>> \/ tail[1] # "/" THEN <<"/">> ELSE <<>>)
                                \o tail)
        ELSE SomeText(scheme \o <<":">> \o rest)

\* Url::path of a parsed http(s) Url
url_path(url) ==
    LET after == SubSeq(url, FirstOf(url, {":"}) + 3, Len(url))
        segments == SubSeq(after, FirstOf(after, {"/"}), Len(after))
    IN  SubSeq(segments, 1, FirstOf(segments, {"?", "#"}) - 1)

\* the <link rel="canonical"> elements that carry an href, in document order
canonical_hrefs(d) ==
    SelectSeq(d, LAMBDA n : /\ n.kind = "element" /\ n.tag = "link"
                            /\ node_attr(n, "rel").some
                            /\ node_attr(n, "rel").text = "canonical"
                            /\ node_attr(n, "href").some)

canonical_link(d) ==
    IF canonical_hrefs(d) # <<>>
    THEN url_parse(node_attr(canonical_hrefs(d)[1], "href").text)
    ELSE IF meta_content(d, "property", "og:url").some
         THEN url_parse(meta_content(d, "property", "og:url").text)
    ELSE NoText

NoDate == [some |-> FALSE, year |-> 0, month |-> 0, day |-> 0, source |-> ""]
SomeDate(y, mo, dy, source) ==
    [some |-> TRUE, year |-> y, month |-> mo, day |-> dy, source |-> source]

RECURSIVE ToNat(_)
\* the number a string of digits denotes
ToNat(str) ==
    IF str = <<>> THEN 0
    ELSE 10 * ToNat(SubSeq(str, 1, Len(str) - 1))
         + (CHOOSE v \in 0..9 :
               <<"0", "1", "2", "3", "4", "5", "6", "7", "8", "9">>[v + 1] = str[Len(str)])

\* DateExtractor::extract_from_doc: the date the extractor finds in the DOM
extract_from_doc(d) == d.doc_date

\* DateExtractor::extract_from_str on a URL path: the first /YYYY/MM/DD/
\* run of segments that is a calendar day, with source url-path
extract_from_str(str) ==
    LET segs == split(str, {"/"})
        IsNum(k, lo, hi) ==
            /\ Len(segs[k]) \in lo..hi
            /\ \A x \in 1..Len(segs[k]) : is_ascii_digit(segs[k][x])
        S == {k \in 1..(Len(segs) - 3) :
                /\ IsNum(k, 4, 4) /\ IsNum(k + 1, 1, 2) /\ IsNum(k + 2, 1, 2)
                /\ ToNat(segs[k + 1]) \in 1..12 /\ ToNat(segs[k + 2]) \in 1..31}
    IN  IF S = {} THEN NoDate
        ELSE SomeDate(ToNat(segs[Min(S)]), ToNat(segs[Min(S) + 1]), ToNat(segs[Min(S) + 2]),
                      "url-path")

\* publishing_date with the URL path consulted before the document
publishing_date_url_first(d) ==
    IF d.base_url.some /\ extract_from_str(url_path(d.base_url.text)).some
    THEN extract_from_str(url_path(d.base_url.text))
    ELSE extract_from_doc(d)

publishing_date(d) ==
    IF extract_from_doc(d).some THEN extract_from_doc(d)
    ELSE IF d.base_url.some THEN extract_from_str(url_path(d.base_url.text))
    ELSE NoDate

NoLang == [some |-> FALSE, lang |-> "", raw |-> <<>>]

\* Language::from_str: Ok(language) for a known code, Err(Unknown(raw)) else
from_str(raw) ==
    IF raw = <<"e", "n">> THEN [ok |-> TRUE, lang |-> "English", raw |-> raw]
    ELSE IF raw = <<"r", "u">> THEN [ok |-> TRUE, lang |-> "Russian", raw |-> raw]
    ELSE [ok |-> FALSE, lang |-> "Unknown", raw |-> raw]

\* the values of the three sources of meta_language, in the order consulted
language_sources(d) ==
    << IF find_name(d, "html") # <<>> THEN node_attr(find_name(d, "html")[1], "lang")
       ELSE NoText,
       meta_content(d, "http-equiv", "Content-Language"),
       meta_content(d, "name", "lang") >>

RECURSIVE LanguageFirstSource(_, _)
\* meta_language returning the parse of the first source present
LanguageFirstSource(sources, unknown_lang) ==
    IF sources = <<>> THEN unknown_lang
    ELSE IF ~Head(sources).some THEN LanguageFirstSource(Tail(sources), unknown_lang)
    ELSE [some |-> TRUE, lang |-> from_str(Head(sources).text).lang,
          raw |-> Head(sources).text]

RECURSIVE LanguageFrom(_, _)
\* the three steps of meta_language over the sources left, with unknown_lang
LanguageFrom(sources, unknown_lang) ==
    IF sources = <<>> THEN unknown_lang
    ELSE IF ~Head(sources).some THEN LanguageFrom(Tail(sources), unknown_lang)
    ELSE IF from_str(Head(sources).text).ok
         THEN [some |-> TRUE, lang |-> from_str(Head(sources).text).lang,
               raw |-> Head(sources).text]
    ELSE LanguageFrom(Tail(sources),
                      [some |-> TRUE, lang |-> "Unknown", raw |-> Head(sources).text])

meta_language(d) == LanguageFrom(language_sources(d), NoLang)

(***************************************************************************)
(* The documents the metadata extractors are run on.                       *)
(***************************************************************************)
MaxMetaEls == 2         \* <link> and <meta> elements of a document
MaxPathPieces == 4      \* pieces of the path of a base URL

HtmlEl(attrs) ==
    << [kind |-> "element", tag |-> "html", inHead |-> FALSE, attrs |-> attrs,
        hasContent |-> FALSE, content |-> <<>>, text |-> <<>>] >>

LinkEl(attrs) ==
    << [kind |-> "element", tag |-> "link", inHead |-> TRUE, attrs |-> attrs,
        hasContent |-> FALSE, content |-> <<>>, text |-> <<>>] >>

MetaEls ==
    {LinkEl(<< <<"rel", "canonical">>, <<"href", h>> >>) :
        h \in {<<"h", "t", "t", "p", "s", ":", "/", "/", "x", "/", "f", "i", "n", "a", "l">>, <<"/", "f", "i", "n", "a", "l">>, <<"H", "T", "T", "P", "S", ":", "/", "/", "X">>, <<>>}}
    \cup { LinkEl(<< <<"rel", "canonical">> >>),
           LinkEl(<< <<"rel", "stylesheet">>, <<"href", <<"h", "t", "t", "p", "s", ":", "/", "/", "x", "/", "s", ".", "c", "s", "s">>>> >>),
           TMeta(TRUE, "property", "og:url", TRUE, <<"h", "t", "t", "p", "s", ":", "/", "/", "x", "/", "o", "g">>),
           TMeta(TRUE, "property", "og:url", TRUE, <<" ", "h", "t", "t", "p", "s", ":", "/", "/", "x", "/", "p", "a", "g", "e", "?", "a", " ">>),
           TMeta(TRUE, "property", "og:url", TRUE, <<"o", "g">>),
           TMeta(FALSE, "property", "og:url", TRUE, <<"h", "t", "t", "p", "s", ":", "/", "/", "x", "/", "b", "o", "d", "y">>),
           TMeta(TRUE, "name", "og:url", TRUE, <<"h", "t", "t", "p", "s", ":", "/", "/", "x", "/", "n", "a", "m", "e">>),
           TMeta(TRUE, "http-equiv", "Content-Language", TRUE, <<"r", "u">>),
           TMeta(TRUE, "http-equiv", "Content-Language", TRUE, <<"y", "y">>),
           TMeta(TRUE, "http-equiv", "Content-Language", TRUE, <<" ">>),
           TMeta(FALSE, "http-equiv", "Content-Language", TRUE, <<"r", "u">>),
           TMeta(TRUE, "http-equiv", "content-language", TRUE, <<"e", "n">>),
           TMeta(TRUE, "name", "lang", TRUE, <<"e", "n">>),
           TMeta(TRUE, "name", "lang", TRUE, <<"z", "z">>) }

HtmlEls ==
    { HtmlEl(<<>>), HtmlEl(<< <<"lang", <<"e", "n">> >> >>),
      HtmlEl(<< <<"lang", <<"x", "x">> >> >>) }

PathPieces ==
    { <<"/", "2", "0", "2", "5">>, <<"/", "1", "1">>, <<"/", "1", "5">>, <<"/", "s", "l", "u", "g", "/">>, <<"/", "1", "3">>, <<"/">> }

BaseUrls ==
    {NoText} \cup {url_parse(<<"h", "t", "t", "p", "s", ":", "/", "/", "h", "o", "s", "t">> \o pth) : pth \in Pieced(PathPieces, MaxPathPieces)}

DocDates == {NoDate, SomeDate(2024, 1, 2, "meta"), SomeDate(2023, 5, 6, "time-element")}

ElementMetaDocs ==
    {[nodes |-> h \o Flatten(f), base_url |-> NoText, doc_date |-> NoDate] :
        h \in HtmlEls, f \in UNION {[1..n -> MetaEls] : n \in 0..MaxMetaEls}}

DateMetaDocs ==
    {[nodes |-> HtmlEl(<<>>), base_url |-> u, doc_date |-> dt] :
        u \in BaseUrls, dt \in DocDates}

MetaDocs == ElementMetaDocs \cup DateMetaDocs

InitMeta ==
    /\ m_doc \in MetaDocs
    /\ m_out = <<>>
    /\ pc = "start"
    /\ doc = <<>> /\ lang = "english" /\ NodeIdle
    /\ a_doc = <<>> /\ a_out = <<>> /\ t_doc = <<>> /\ t_out = <<>>
    /\ c_doc = <<>> /\ c_out = <<>> /\ FindIdle

MetaUnchanged ==
    UNCHANGED <<doc, lang, txt_nodes, i, starting_boost, nodes_scores, boost_log,
                upscore_log, result, path, a_doc, a_out, t_doc, t_out, c_doc, c_out, m_doc,
                f_next, f_out, f_seen, l_line, l_out>>

\* canonical_link(doc)
CanonicalLink ==
    /\ pc = "start"
    /\ m_out' = canonical_link(m_doc.nodes)
    /\ pc' = "canonical"
    /\ MetaUnchanged

\* publishing_date(doc, base_url)
PublishingDate ==
    /\ pc = "start"
    /\ m_out' = publishing_date(m_doc)
    /\ pc' = "date"
    /\ MetaUnchanged

\* meta_language(doc)
MetaLanguage ==
    /\ pc = "start"
    /\ m_out' = meta_language(m_doc.nodes)
    /\ pc' = "language"
    /\ MetaUnchanged

NextMeta == CanonicalLink \/ PublishingDate \/ MetaLanguage

SpecMeta == InitMeta /\ [][NextMeta]_vars

(***************************************************************************)
(* Properties of article_node (checked under SpecNode).                    *)
(***************************************************************************)
HasItemprop(d) == \E n \in Nodes(d) : d[n].attrs["itemprop"] = "articleBody"
HasBody(d) == \E n \in Nodes(d) : d[n].tag = "body"
AtLeast95(c) == 100 * c.num >= 95 * c.den
FracEq(a, b) == a.num * b.den = b.num * a.den
HighDensity(d, n) == 2 * link_density(d, n).num > link_density(d, n).den
Survivors == {txt_nodes[k].node : k \in 1..Len(txt_nodes)}

ReturnsItemprop ==
    /\ result.some
    /\ doc[result.index].attrs["itemprop"] = "articleBody"
    /\ AtLeast95(result.conf)

\* C1 (as stated): whenever the document has an itemprop="articleBody" node,
\* article_node returns a node carrying that attribute with confidence >= 0.95,
\* wherever the node sits and whatever else the document contains.
C1_ItempropAlwaysSelected ==
    (pc = "done" /\ HasItemprop(doc)) => ReturnsItemprop

\* the single node under <body> that matches ARTICLE_BODY_ATTR is not an
\* itemprop="articleBody" node
SingleOtherMatch(d) ==
    /\ Cardinality(body_matches(d)) = 1
    /\ \A n \in body_matches(d) : d[n].attrs["itemprop"] # "articleBody"

\* C1 (amended): whenever the document has an itemprop="articleBody" node,
\* article_node returns a node carrying that attribute with confidence >= 0.95,
\* unless exactly one node under <body> matches ARTICLE_BODY_ATTR and that node
\* is not an itemprop="articleBody" node; then that single match is returned
\* with confidence 1.0.
C1_ItempropSelectedUnlessSingleMatch ==
    (pc = "done" /\ HasItemprop(doc)) =>
        IF SingleOtherMatch(doc)
        THEN /\ result.some
             /\ result.index \in body_matches(doc)
             /\ FracEq(result.conf, [num |-> 1, den |-> 1])
        ELSE ReturnsItemprop

\* C1 witness: the itemprop node is returned although two other nodes under
\* <body> match ARTICLE_BODY_ATTR and the itemprop node is <body> itself
C1_Witness ==
    /\ pc = "done" /\ ReturnsItemprop
    /\ doc[result.index].tag = "body"
    /\ Cardinality(body_matches(doc)) = 2

\* C20 (as stated): the itemprop="articleBody" fast path comes first and
\* gives confidence exactly 0.95; otherwise a single ARTICLE_BODY_ATTR match
\* under <body> gives confidence exactly 1.0; otherwise the scoring path is
\* used; so a confidence of 1.0 from the fast path implies that no node has
\* itemprop="articleBody".
C20_ItempropBeforeSingle ==
    pc = "done" =>
        /\ HasItemprop(doc) =>
              /\ path = "itemprop" /\ result.some
              /\ doc[result.index].attrs["itemprop"] = "articleBody"
              /\ FracEq(result.conf, [num |-> 95, den |-> 100])
        /\ (~HasItemprop(doc) /\ Cardinality(body_matches(doc)) = 1) =>
              /\ path = "single" /\ result.some
              /\ result.index \in body_matches(doc)
              /\ FracEq(result.conf, [num |-> 1, den |-> 1])
        /\ (~HasItemprop(doc) /\ Cardinality(body_matches(doc)) # 1) =>
              path = "scoring"
        /\ path = "single" => ~HasItemprop(doc)

\* C20 (amended): the single ARTICLE_BODY_ATTR match under <body> comes first
\* and gives confidence exactly 1.0; otherwise an itemprop="articleBody" node
\* gives confidence exactly 0.95; otherwise the scoring path is used; so a
\* confidence of 0.95 from the fast path implies that the number of matches
\* under <body> is not one.
C20_SingleBeforeItemprop ==
    pc = "done" =>
        /\ Cardinality(body_matches(doc)) = 1 =>
              /\ path = "single" /\ result.some
              /\ result.index \in body_matches(doc)
              /\ FracEq(result.conf, [num |-> 1, den |-> 1])
        /\ (Cardinality(body_matches(doc)) # 1 /\ HasItemprop(doc)) =>
              /\ path = "itemprop" /\ result.some
              /\ doc[result.index].attrs["itemprop"] = "articleBody"
              /\ FracEq(result.conf, [num |-> 95, den |-> 100])
        /\ (Cardinality(body_matches(doc)) # 1 /\ ~HasItemprop(doc)) =>
              path = "scoring"
        /\ path = "itemprop" => Cardinality(body_matches(doc)) # 1

\* C20 witness: the only node under <body> matching ARTICLE_BODY_ATTR is an
\* itemprop="articleBody" node, returned with confidence 1.0
C20_Witness ==
    /\ pc = "done" /\ path = "single" /\ result.some
    /\ doc[result.index].attrs["itemprop"] = "articleBody"
    /\ FracEq(result.conf, [num |-> 1, den |-> 1])

\* C2 (as stated): in the scoring path the returned node is the entry of
\* maximal sum, and among several entries of maximal sum the smallest index.
C2_TieBreakSmallestIndex ==
    (pc = "done" /\ path = "scoring" /\ DOMAIN nodes_scores # {}) =>
        /\ \A y \in DOMAIN nodes_scores : nodes_scores[y].sum <= nodes_scores[result.index].sum
        /\ \A y \in DOMAIN nodes_scores :
              nodes_scores[y].sum = nodes_scores[result.index].sum => result.index <= y

\* C3 (as stated): article_node returns None exactly when the document has no
\* <body> element.
C3_NoneIffNoBody ==
    pc = "done" => (result.some <=> HasBody(doc))

\* C3 (amended): article_node never returns None, with or without <body>; when
\* no fast path applies and no candidate survives scoring it returns the node
\* of index 0 with confidence 0.
C3_NeverNone ==
    pc = "done" =>
        /\ result.some
        /\ result.index \in Nodes(doc)
        /\ (path = "scoring" /\ Len(txt_nodes) = 0) =>
               (result.index = 0 /\ result.conf.num = 0)

\* C3 witness: a document without <body> in which no candidate survives has
\* gone through the scoring path
C3_Witness ==
    pc = "done" /\ ~HasBody(doc) /\ path = "scoring" /\ Len(txt_nodes) = 0 /\ result.some

\* C4 (as stated): in the scoring path a candidate of the enumerator whose
\* link density exceeds 0.5 is never the returned node.
C4_HighDensityNeverReturned ==
    (pc = "done" /\ path = "scoring") =>
        ~(result.index \in Range(nodes_to_check(doc)) /\ HighDensity(doc, result.index))

\* C4 (amended): a candidate whose link density exceeds 0.5 never survives the
\* filter (it adds no score to its parent or grandparent); the scoring path
\* returns such a node only when it is the parent or grandparent of a
\* surviving candidate.
C4_HighDensityOnlyAsAncestor ==
    /\ \A n \in Survivors : ~HighDensity(doc, n)
    /\ (/\ pc = "done" /\ path = "scoring"
        /\ result.index \in Range(nodes_to_check(doc))
        /\ HighDensity(doc, result.index)) =>
           \E c \in Survivors :
               \/ doc[c].parent = result.index
               \/ (doc[c].parent # None /\ doc[doc[c].parent].parent = result.index)

\* C4 witness: the scoring path returned a candidate whose link density
\* exceeds 0.5
C4_Witness ==
    /\ pc = "done" /\ path = "scoring"
    /\ result.index \in Range(nodes_to_check(doc))
    /\ HighDensity(doc, result.index)

\* the five conditions of C5 on a candidate
C5_Qualifies(n) ==
    LET t == text(doc, n)
    IN  /\ t.bytes >= 50
        /\ ~t.blank
        /\ ~is_noise_text(t)
        /\ ~HighDensity(doc, n)
        /\ lang # "unknown" /\ t.stops >= 5

\* the accumulator entries the first k survivors account for
C5_Contributions(k) ==
    LET S == {txt_nodes[x].node : x \in 1..k}
    IN  [keys |-> {doc[c].parent : c \in {c \in S : doc[c].parent # None}}
                  \cup {doc[doc[c].parent].parent :
                           c \in {c \in S : doc[c].parent # None
                                            /\ doc[doc[c].parent].parent # None}},
         count |-> Cardinality({c \in S : doc[c].parent # None})
                   + Cardinality({c \in S : doc[c].parent # None
                                            /\ doc[doc[c].parent].parent # None})]

RECURSIVE SumCnt(_, _)
SumCnt(scores, S) ==
    IF S = {} THEN 0
    ELSE LET x == Min(S) IN scores[x].cnt + SumCnt(scores, S \ {x})

\* C5: a candidate is among the N scored candidates only if its text length is
\* at least 50, its text is not blank and not noise text, its link density is at
\* most 0.5 and its stopword count is at least 5; the accumulator holds entries
\* for, and counts contributions of, the scored candidates only.
C5_OnlyQualifiedContribute ==
    /\ LET cands == Range(nodes_to_check(doc))
       IN  \A n \in Survivors : n \in cands /\ C5_Qualifies(n)
    /\ Len(txt_nodes) = Cardinality(Survivors)
    /\ DOMAIN nodes_scores = C5_Contributions(i).keys
    /\ SumCnt(nodes_scores, DOMAIN nodes_scores) = C5_Contributions(i).count

\* C5 witness: scoring finished with a scored candidate while a candidate with
\* at least 5 stopwords but fewer than 50 bytes of text was left out
C5_Witness ==
    /\ pc = "done" /\ path = "scoring" /\ DOMAIN nodes_scores # {}
    /\ \E n \in Range(nodes_to_check(doc)) :
          /\ text(doc, n).bytes < 50 /\ text(doc, n).stops >= 5
          /\ n \notin Survivors

\* the number of boostable nodes among the first k scored candidates
C6_Boosted(k) ==
    Cardinality({x \in 1..k : is_boostable(doc, lang, txt_nodes[x].node)})

\* C6: with N > 15 every candidate at index idx with 4 * (N - idx) <= N gets the
\* boost -(0.25 * N - (N - idx))^2, or 5 when that magnitude exceeds 40,
\* boostable or not; every other candidate, and every candidate when N <= 15,
\* keeps 50 / starting_boost if boostable and 0 otherwise.
C6_TailBoost ==
    \A k \in 1..Len(boost_log) :
        LET N == Len(txt_nodes)
            idx == k - 1
            b4 == N - 4 * (N - idx)
        IN  IF N > 15 /\ 4 * (N - idx) <= N
            THEN IF b4 * b4 > 640
                 THEN FracEq(boost_log[k], [num |-> 5, den |-> 1])
                 ELSE FracEq(boost_log[k], [num |-> 0 - b4 * b4, den |-> 16])
                      /\ boost_log[k].num <= 0
            ELSE IF is_boostable(doc, lang, txt_nodes[k].node)
                 THEN FracEq(boost_log[k], [num |-> 50, den |-> C6_Boosted(k - 1) + 1])
                 ELSE boost_log[k].num = 0

\* C6 witness: a run with N > 15 in which a boostable candidate of the tail got
\* a negative boost and a later one was clamped to 5
C6_Witness ==
    /\ pc = "done" /\ Len(txt_nodes) > 15
    /\ \E k \in 1..Len(boost_log) :
          boost_log[k].num < 0 /\ is_boostable(doc, lang, txt_nodes[k].node)
    /\ \E k \in 1..Len(boost_log) :
          boost_log[k] = [num |-> 5, den |-> 1] /\ is_boostable(doc, lang, txt_nodes[k].node)

\* the scored candidates (positions in txt_nodes) whose parent is x, and
\* those whose grandparent is x
C24_Children(x) == {k \in 1..Len(txt_nodes) : doc[txt_nodes[k].node].parent = x}

C24_Grandchildren(x) ==
    {k \in 1..Len(txt_nodes) :
        /\ doc[txt_nodes[k].node].parent # None
        /\ doc[doc[txt_nodes[k].node].parent].parent = x}

RECURSIVE C24_SumFull(_)
C24_SumFull(S) ==
    IF S = {} THEN 0 ELSE LET k == Min(S) IN upscore_log[k] + C24_SumFull(S \ {k})

RECURSIVE C24_SumDecayed(_)
C24_SumDecayed(S) ==
    IF S = {} THEN 0
    ELSE LET k == Min(S) IN ((4 * upscore_log[k]) \div 10) + C24_SumDecayed(S \ {k})

\* C24: after the scoring loop the accumulator holds, for every node x, the
\* sum of the upscores of the scored candidates whose parent is x plus the
\* sum of floor(0.4 * upscore) of those whose grandparent is x, and the
\* number of these contributions; a node without contribution has no entry.
C24_AccumulatorIsParentPlusDecayedGrandparent ==
    (pc \in {"loop", "done"} /\ i = Len(txt_nodes) /\ path \in {"none", "scoring"}) =>
        \A x \in Nodes(doc) \cup {None} \cup DOMAIN nodes_scores :
            IF x # None /\ (C24_Children(x) # {} \/ C24_Grandchildren(x) # {})
            THEN /\ x \in DOMAIN nodes_scores
                 /\ nodes_scores[x].sum = C24_SumFull(C24_Children(x))
                                            + C24_SumDecayed(C24_Grandchildren(x))
                 /\ nodes_scores[x].cnt = Cardinality(C24_Children(x))
                                            + Cardinality(C24_Grandchildren(x))
            ELSE x \notin DOMAIN nodes_scores

\* the loop ended with a node that is the parent of one scored candidate and
\* the grandparent of another, with a decayed share that was rounded down,
\* and with a node of the document that has no entry
C24_Witness ==
    /\ pc = "loop" /\ i = Len(txt_nodes)
    /\ \E x \in DOMAIN nodes_scores :
          /\ C24_Children(x) # {} /\ C24_Grandchildren(x) # {}
          /\ \E k \in C24_Grandchildren(x) : (4 * upscore_log[k]) % 10 # 0
    /\ \E x \in Nodes(doc) : IsElement(doc, x) /\ x \notin DOMAIN nodes_scores

\* twice the formatting bonus of node n: 2 for a descendant <strong>, 1.5
\* for <em>, 1 for <b>, 0.5 for <i>, less 0.5 per descendant <a> above five
C25_Formatting2(n) ==
    LET Has(t) == \E j \in Descendants(doc, n) : doc[j].tag = t
        link_count == Cardinality({j \in Descendants(doc, n) : doc[j].tag = "a"})
    IN  (IF Has("strong") THEN 4 ELSE 0) + (IF Has("em") THEN 3 ELSE 0)
        + (IF Has("b") THEN 2 ELSE 0) + (IF Has("i") THEN 1 ELSE 0)
        - (IF link_count > 5 THEN link_count - 5 ELSE 0)

\* base_score + boost + formatting_bonus + length_bonus of the k-th scored
\* candidate, as the fraction num / den with den > 0
C25_Total(k) ==
    LET c == txt_nodes[k]
        wc == c.stats.word_count
        den == 100 * boost_log[k].den
    IN  [num |-> c.score * den + 100 * boost_log[k].num
                 + 50 * boost_log[k].den * C25_Formatting2(c.node)
                 + boost_log[k].den * (IF wc < 500 THEN wc ELSE 500),
         den |-> den]

\* C25 (as stated): the propagated upscore of every scored candidate is
\* floor(base_score + boost + formatting_bonus + length_bonus), whatever the
\* sign of the total.
C25_UpscoreIsFloorOfTotal ==
    \A k \in 1..Len(upscore_log) :
        upscore_log[k] = C25_Total(k).num \div C25_Total(k).den

\* C25 (amended): the propagated upscore of every scored candidate is
\* floor(base_score + boost + formatting_bonus + length_bonus) when the
\* total is not negative, and 0 when it is negative.
C25_UpscoreIsFloorOrZero ==
    \A k \in 1..Len(upscore_log) :
        upscore_log[k] = IF C25_Total(k).num < 0 THEN 0
                         ELSE C25_Total(k).num \div C25_Total(k).den

\* the loop scored a candidate with a formatting bonus whose total is
\* negative and whose upscore is 0, after one whose total is positive and
\* not a whole number
C25_Witness ==
    /\ pc = "loop" /\ i = Len(txt_nodes)
    /\ \E k \in 1..Len(upscore_log) :
          /\ C25_Total(k).num < 0 /\ upscore_log[k] = 0
          /\ C25_Formatting2(txt_nodes[k].node) > 0
    /\ \E k \in 1..Len(upscore_log) :
          /\ C25_Total(k).num > 0 /\ C25_Total(k).num % C25_Total(k).den # 0

\* the accumulated sum of the node the scoring path selected (0 when the
\* accumulator is empty)
C26_BestSum ==
    IF result.index \in DOMAIN nodes_scores THEN nodes_scores[result.index].sum ELSE 0

\* C26: the returned confidence_score lies in [0, 1]; in the scoring path
\* it is min(1, max(0, best_sum / (10 * N))) for N scored candidates and 0
\* when N = 0; in the fast paths it is 0.95 or 1.0.
C26_ConfidenceInUnitInterval ==
    (pc = "done" /\ result.some) =>
        /\ result.conf.den > 0
        /\ 0 <= result.conf.num /\ result.conf.num <= result.conf.den
        /\ path = "scoring" =>
              LET N == Len(txt_nodes)
              IN  IF N = 0 THEN result.conf.num = 0
                  ELSE IF C26_BestSum >= 10 * N THEN result.conf.num = result.conf.den
                  ELSE IF C26_BestSum <= 0 THEN result.conf.num = 0
                  ELSE FracEq(result.conf, [num |-> C26_BestSum, den |-> 10 * N])
        /\ path \in {"single", "itemprop"} =>
              \/ FracEq(result.conf, [num |-> 95, den |-> 100])
              \/ FracEq(result.conf, [num |-> 1, den |-> 1])

\* the scoring path returned a node whose sum is more than 10 * N, with
\* several scored candidates, and the confidence is 1
C26_Witness ==
    /\ pc = "done" /\ path = "scoring" /\ result.some
    /\ Len(txt_nodes) >= 2
    /\ C26_BestSum > 10 * Len(txt_nodes)
    /\ result.conf.num = result.conf.den

\* the sibling s qualifies: link density at most 0.5, and a first text
\* child with more than 5 stopwords and at least 10 words
C27_Qualifies(s) ==
    /\ 2 * link_density(doc, s).num <= link_density(doc, s).den
    /\ first_children_text(doc, s) # None
    /\ LET stats == stopword_count(lang, doc[first_children_text(doc, s)].text)
       IN  stats.some /\ stats.stopword_count > 5 /\ stats.word_count >= 10

\* the <p> siblings of n before it (dir = "prev") or after it (dir = "next")
C27_PSiblings(n, dir) ==
    {s \in Nodes(doc) : /\ doc[s].parent = doc[n].parent /\ doc[s].tag = "p"
                        /\ IF dir = "prev" THEN s < n ELSE s > n}

\* the up to 3 nearest of them
C27_Nearest(n, dir) ==
    {s \in C27_PSiblings(n, dir) :
        Cardinality({t \in C27_PSiblings(n, dir) :
                        IF dir = "prev" THEN t > s ELSE t < s}) < 3}

\* C27: is_boostable(node) is true exactly when one of the up to 3 nearest
\* <p> siblings before the node or of the up to 3 nearest <p> siblings after
\* it qualifies.
C27_BoostableIffNearPQualifies ==
    \A k \in 1..Len(boost_log) :
        LET n == txt_nodes[k].node
        IN  is_boostable(doc, lang, n) <=>
                \E s \in C27_Nearest(n, "prev") \cup C27_Nearest(n, "next") :
                    C27_Qualifies(s)

(***************************************************************************)
(* Properties of the noise classifier and of the text-node enumerator      *)
(* (checked under SpecNode).                                               *)
(***************************************************************************)
\* the node a itself matches one of the patterns of the noise classifier
C21_Matches(d, a) ==
    \/ d[a].tag \in {"script", "style", "link", "meta", "noscript", "figcaption", "figure"}
    \/ d[a].attrs["data-image-caption"] # Absent
    \/ d[a].attrs["data-creative"] # Absent
    \/ /\ d[a].attrs["class"] # Absent
       /\ \E sub \in {"articlebottom", "article-bottom", "footer", "sidebar", "widget",
                       "related-", "recommendation"} :
              Contains(Lower(d[a].attrs["class"]), sub)
    \/ /\ d[a].tag = "img"
       /\ d[a].attrs["style"] # Absent
       /\ \/ Contains(d[a].attrs["style"], "display: none")
          \/ Contains(d[a].attrs["style"], "visibility: hidden")
          \/ /\ Contains(d[a].attrs["style"], "position: absolute")
             /\ Contains(d[a].attrs["style"], "left: -9999px")

\* an ancestor a matches one of the patterns is_noise_node looks for in the
\* parents of a node
C21_AncestorMatches(d, a) ==
    \/ d[a].tag \in {"script", "style", "noscript", "figcaption", "figure"}
    \/ d[a].attrs["data-image-caption"] # Absent
    \/ d[a].attrs["data-creative"] # Absent
    \/ /\ d[a].attrs["class"] # Absent
       /\ \E sub \in {"articlebottom", "article-bottom", "footer", "sidebar", "widget",
                       "related-", "recommendation"} :
              Contains(Lower(d[a].attrs["class"]), sub)

\* C21 (as stated): is_noise_node(n) is true exactly when n or an ancestor of
\* n matches one of the patterns (noise tag, data-image-caption,
\* data-creative, noise class, hidden <img>); so every descendant of a noise
\* node is noise.
C21_NoiseIffSelfOrAncestorMatches ==
    /\ \A n \in Nodes(doc) :
          is_noise_node(doc, n) <=>
              \E a \in Nodes(doc) : (a = n \/ IsAncestor(doc, a, n)) /\ C21_Matches(doc, a)
    /\ \A n \in Nodes(doc) :
          is_noise_node(doc, n) => \A m \in Descendants(doc, n) : is_noise_node(doc, m)

\* C21 (amended): is_noise_node(n) is true exactly when n matches one of the
\* patterns, or an ancestor of n matches one of them other than the tags
\* link and meta and the hidden <img>; every descendant of a noise node
\* that is not a <link>, <meta> or <img> is noise.
C21_NoiseIffSelfOrNoiseContainer ==
    /\ \A n \in Nodes(doc) :
          is_noise_node(doc, n) <=>
              \/ C21_Matches(doc, n)
              \/ \E a \in Nodes(doc) : IsAncestor(doc, a, n) /\ C21_AncestorMatches(doc, a)
    /\ \A n \in Nodes(doc) :
          (is_noise_node(doc, n) /\ doc[n].tag \notin {"link", "meta", "img"}) =>
              \A m \in Descendants(doc, n) : is_noise_node(doc, m)

\* the enumerator ran over a document with a <p> that matches no pattern
\* itself, is noise through its parent and was left out, and with a node
\* below a <link> that is not noise
C21_Witness ==
    /\ pc = "loop"
    /\ \E n \in Nodes(doc) :
          /\ Name(doc, n, "p") /\ ~C21_Matches(doc, n)
          /\ is_noise_node(doc, n)
          /\ \A k \in 1..Len(txt_nodes) : txt_nodes[k].node # n
    /\ \E n \in Nodes(doc) :
          /\ doc[n].parent # None /\ Name(doc, doc[n].parent, "link")
          /\ ~is_noise_node(doc, n)

\* the attribute k of node n contains one of the substrings subs
C22_AttrHas(d, n, k, subs) ==
    d[n].attrs[k] # Absent /\ \E sub \in subs : Contains(d[n].attrs[k], sub)

\* the nodes the calls of next() returned
C22_Yielded == {f_out[k] : k \in DOMAIN f_out} \ {None}

\* the nodes the cursor reached and did not reject
C22_NonRejected == {n \in Nodes(doc) : /\ \E k \in DOMAIN f_seen : f_seen[k] = n
                                       /\ ~is_bad(doc, n)
                                       /\ ~is_non_content_by_attr(doc, n)
                                       /\ ~is_noise_node(doc, n)}

C22_SixSubstrings == {"article", "story", "paragraph", "content", "post", "entry"}

\* C22 (as stated): a non-rejected node is yielded exactly when its tag is
\* p, pre, td or article, or it is a div whose class or id contains one of
\* article, story, paragraph, content, post, entry; nothing else is yielded.
C22_CandidateSameSubstrings ==
    LET Candidate(n) ==
            \/ doc[n].tag \in {"p", "pre", "td", "article"}
            \/ /\ doc[n].tag = "div"
               /\ \/ C22_AttrHas(doc, n, "class", C22_SixSubstrings)
                  \/ C22_AttrHas(doc, n, "id", C22_SixSubstrings)
    IN  /\ \A n \in C22_Yielded : Candidate(n)
        /\ \A n \in C22_NonRejected : n \in C22_Yielded <=> Candidate(n)

\* C22 (amended): a non-rejected node is yielded exactly when its tag is p,
\* pre, td or article, or it is a div whose class contains one of article,
\* story, paragraph, content, post, entry or whose id contains one of
\* article, story, content; nothing else is yielded.
C22_CandidateClassSixIdThree ==
    LET Candidate(n) ==
            \/ doc[n].tag \in {"p", "pre", "td", "article"}
            \/ /\ doc[n].tag = "div"
               /\ \/ C22_AttrHas(doc, n, "class", C22_SixSubstrings)
                  \/ C22_AttrHas(doc, n, "id", {"article", "story", "content"})
    IN  /\ \A n \in C22_Yielded : Candidate(n)
        /\ \A n \in C22_NonRejected : n \in C22_Yielded <=> Candidate(n)

\* the iteration ended over a document with a <div id="post-body"> that was
\* reached, not rejected and not yielded, and with a <p> that was yielded
C22_Witness ==
    /\ pc = "done" /\ f_out # <<>>
    /\ \E n \in C22_NonRejected :
          /\ doc[n].tag = "div" /\ C22_AttrHas(doc, n, "id", {"post"})
          /\ n \notin C22_Yielded
    /\ \E n \in C22_Yielded : doc[n].tag = "p"

\* the indices the loop of next() looked at
C23_Seen == {f_seen[k] : k \in DOMAIN f_seen}

\* the node n is rejected by is_bad, NON_CONTENT_ATTR or is_noise_node
C23_Rejected(n) ==
    is_bad(doc, n) \/ is_non_content_by_attr(doc, n) \/ is_noise_node(doc, n)

\* C23: the iterator yields in strictly increasing index order, each node at
\* most once, and only nodes that are not rejected and have no rejected
\* ancestor; the cursor passes over exactly the descendants of the rejected
\* nodes it looked at, looks at every node at most once in increasing
\* order, and the iteration ends with None.
C23_ForwardSubtreeSkips ==
    /\ \A j, k \in DOMAIN f_out :
          (j < k /\ f_out[k] # None) => (f_out[j] # None /\ f_out[j] < f_out[k])
    /\ \A k \in DOMAIN f_out : f_out[k] # None =>
          /\ ~C23_Rejected(f_out[k])
          /\ \A a \in Nodes(doc) : IsAncestor(doc, a, f_out[k]) => ~C23_Rejected(a)
    /\ \A j, k \in DOMAIN f_seen : j < k => f_seen[j] < f_seen[k]
    /\ \A k \in DOMAIN f_seen : f_seen[k] < f_next
    /\ f_next <= Cardinality(Nodes(doc))
    /\ \A n \in Nodes(doc) : n < f_next =>
          (n \notin C23_Seen <=>
              \E a \in C23_Seen : C23_Rejected(a) /\ IsAncestor(doc, a, n))
    /\ pc = "done" => /\ f_out[Len(f_out)] = None
                      /\ f_next = Cardinality(Nodes(doc))
                      /\ Len(f_seen) <= Cardinality(Nodes(doc))

\* the iteration ended over a document with a rejected node that is not
\* noise, whose subtree holds a <p> two levels down that the cursor never
\* looked at, and with a node after that subtree that was yielded
C23_Witness ==
    /\ pc = "done" /\ Len(f_out) >= 2
    /\ \E a \in C23_Seen, n \in Nodes(doc) :
          /\ C23_Rejected(a) /\ ~is_noise_node(doc, a)
          /\ IsAncestor(doc, a, n) /\ doc[n].parent # a
          /\ Name(doc, n, "p") /\ n \notin C23_Seen
          /\ \E k \in DOMAIN f_out : f_out[k] # None /\ f_out[k] > n

(***************************************************************************)
(* Properties of authors() (checked under SpecAuthors).                    *)
(***************************************************************************)
\* C7: the list authors() returns is sorted ascending by the lowercase form of
\* its entries and no two entries have the same lowercase form.
C7_SortedUnique ==
    pc = "done" =>
        \A k \in 1..(Len(a_out) - 1) :
            StrLess(to_lowercase(a_out[k]), to_lowercase(a_out[k + 1]))

\* C7 witness: two authors are returned although three names were collected,
\* two of which differ in case only
C7_Witness ==
    /\ pc = "done" /\ Len(a_out) >= 2
    /\ LET names == CollectAuthors(a_doc)
       IN  \E x, y \in 1..Len(names) :
              names[x] # names[y] /\ to_lowercase(names[x]) = to_lowercase(names[y])

\* C8: for <meta name="author" content="By Jane Doe, JANE DOE, Reuters">
\* authors() returns exactly ["Jane Doe"].
C8_FixtureAuthors ==
    (pc = "done" /\ a_doc = <<Meta("name", "author", FixtureByline)>>) =>
        a_out = << <<"J", "a", "n", "e", " ", "D", "o", "e">> >>

\* C9: every string authors() returns has no '<', no '>', no digit, does not
\* start with "By " and neither starts nor ends with . , - / or whitespace.
C9_CleanAuthorStrings ==
    pc = "done" =>
        \A k \in 1..Len(a_out) :
            LET a == a_out[k]
            IN  /\ \A x \in 1..Len(a) : a[x] \notin {"<", ">"} \cup Digits
                /\ ~starts_with(a, <<"B", "y", " ">>)
                /\ a # <<>>
                /\ a[1] \notin {".", ",", "-", "/"} \cup Whitespace
                /\ a[Len(a)] \notin {".", ",", "-", "/"} \cup Whitespace

\* the tokens of the byline contents of the document: the pieces between the
\* delimiters, trimmed
C30_Tokens ==
    UNION {{trim(t) : t \in Range(split([x \in 1..Len(author_content(a_doc[e])) |->
                                            IF author_content(a_doc[e])[x]
                                                   \in {"LF", "TAB", "CR", "NBSP"}
                                            THEN " " ELSE author_content(a_doc[e])[x]],
                                        {"MIDDOT", ",", "|", "/", "NBSP"}))} :
              e \in DOMAIN a_doc}

\* the first two words of a token, joined by one space
C30_FirstTwo(t) ==
    split_whitespace(t)[1] \o <<" ">> \o split_whitespace(t)[2]

\* C30: every string authors() returns has exactly two whitespace-separated
\* words; a token of 3 or 4 words is cut to its first two words before the
\* stop words are stripped, so what is returned for it is what stripping
\* leaves of these two words, and nothing when that is less than two words.
C30_ExactlyTwoWords ==
    pc = "done" =>
        \A k \in 1..Len(a_out) :
            /\ Len(split_whitespace(a_out[k])) = 2
            /\ \E t \in C30_Tokens :
                  /\ Len(split_whitespace(t)) \in 2..4
                  /\ a_out[k] = clean_author(clean_author(
                                    IF Len(split_whitespace(t)) > 2 THEN C30_FirstTwo(t) ELSE t))

\* authors() returned the first two words of a 3-word token and nothing for
\* a 3-word token whose first word is a stop word
C30_Witness ==
    /\ pc = "done" /\ Len(a_out) = 1
    /\ \E t \in C30_Tokens :
          /\ Len(split_whitespace(t)) = 3 /\ a_out[1] = C30_FirstTwo(t)
    /\ \E t \in C30_Tokens :
          /\ Len(split_whitespace(t)) = 3 /\ is_valid_name(t)
          /\ Len(split_whitespace(clean_author(C30_FirstTwo(t)))) = 1

(***************************************************************************)
(* Properties of is_code_like_line (checked under SpecLine).               *)
(***************************************************************************)
\* more than 0.3 of the length of the line are characters that are neither
\* alphanumeric nor whitespace, and the line has fewer than 5 words
C28_SpecialRatio ==
    LET special == Cardinality({x \in DOMAIN l_line :
                                   /\ l_line[x] \notin Range(Uppercase) \cup Range(Lowercase)
                                                        \cup Digits
                                   /\ l_line[x] \notin {" ", "TAB", "LF", "CR", "NBSP"}})
    IN  /\ 10 * special > 3 * ByteLen(l_line)
        /\ Len(split_whitespace(l_line)) < 5

\* the line holds the characters pat one after the other
C28_Has(pat) ==
    \E x \in 0..(Len(l_line) - Len(pat)) :
        \A y \in 1..Len(pat) : l_line[x + y] = pat[y]

C28_StartsWithAttribute ==
    \E pat \in { <<"s", "r", "c", "=">>, <<"a", "l", "t", "=">>,
                  <<"c", "l", "a", "s", "s", "=">>, <<"h", "e", "i", "g", "h", "t", "=">> } :
        Len(l_line) >= Len(pat) /\ \A y \in 1..Len(pat) : l_line[y] = pat[y]

\* C28 (as stated): is_code_like_line(l) is true exactly when the ratio of
\* special characters exceeds 0.3 with fewer than 5 words, or l contains ';'
\* and '=' and no space, or l contains "().", or l starts with src=, alt=,
\* class= or height=.
C28_CodeLikeCallDot ==
    pc = "done" =>
        (l_out <=> \/ C28_SpecialRatio
                   \/ (C28_Has(<<";">>) /\ C28_Has(<<"=">>) /\ ~C28_Has(<<" ">>))
                   \/ C28_Has(<<"(", ")", ".">>)
                   \/ C28_StartsWithAttribute)

\* C28 (amended): is_code_like_line(l) is true exactly when the ratio of
\* special characters exceeds 0.3 with fewer than 5 words, or l contains ';'
\* and '=' and no space, or l contains "()" and contains '.', or l starts
\* with src=, alt=, class= or height=.
C28_CodeLikeCallAndDot ==
    pc = "done" =>
        (l_out <=> \/ C28_SpecialRatio
                   \/ (C28_Has(<<";">>) /\ C28_Has(<<"=">>) /\ ~C28_Has(<<" ">>))
                   \/ (C28_Has(<<"(", ")">>) /\ C28_Has(<<".">>))
                   \/ C28_StartsWithAttribute)

\* the function returned true for a line of 5 words or more that holds "()"
\* and, elsewhere, '.', and matches none of the other patterns
C28_Witness ==
    /\ pc = "done" /\ l_out
    /\ Len(split_whitespace(l_line)) >= 5
    /\ C28_Has(<<"(", ")">>) /\ C28_Has(<<".">>) /\ ~C28_Has(<<"(", ")", ".">>)
    /\ ~C28_Has(<<";">>) /\ ~C28_StartsWithAttribute

(***************************************************************************)
(* Properties of title() (checked under SpecTitle).                        *)
(***************************************************************************)
\* C10 as stated: the title returned by title(), if present, contains no '<'
\* and no '>' and does not start with "By ".
C10_TitleNoTagsNoBy ==
    (pc = "done" /\ t_out.some) =>
        /\ \A x \in 1..Len(t_out.text) : t_out.text[x] \notin {"<", ">"}
        /\ ~starts_with(t_out.text, <<"B", "y", " ">>)

\* C10 amended: the title returned by title(), if present, has no leading and
\* no trailing whitespace and holds no "&raquo;" entity; '<', '>' and a leading
\* "By " of its source are kept.
C10_TitleTrimmedEntitiesReplaced ==
    (pc = "done" /\ t_out.some) =>
        /\ t_out.text = <<>> \/
              (~is_whitespace(t_out.text[1]) /\ ~is_whitespace(t_out.text[Len(t_out.text)]))
        /\ ~contains(t_out.text, TITLE_REPLACEMENTS[1])

\* C10 witness: a title is returned that starts with "By " and holds a tag
C10_Witness ==
    /\ pc = "done" /\ t_out.some
    /\ starts_with(t_out.text, <<"B", "y", " ">>)
    /\ \E x \in 1..Len(t_out.text) : t_out.text[x] = "<"
    /\ \E n \in 1..Len(t_doc) :
          t_doc[n].hasContent /\ contains(t_doc[n].content, TITLE_REPLACEMENTS[1])

\* the text below the element at position n: its text node, if it has one
ElemText(d, n) ==
    IF n < Len(d) /\ d[n + 1].kind = "text" THEN d[n + 1].text ELSE <<>>

ElementsNamed(d, tag) == {n \in 1..Len(d) : d[n].kind = "element" /\ d[n].tag = tag}

\* the rank of a title meta: key by key, property before name
MetaRank(el) ==
    2 * (CHOOSE k \in 1..Len(TITLE_META_INFO) : TITLE_META_INFO[k] = el.attrs[1][2])
    + (IF el.attrs[1][1] = "property" THEN 0 ELSE 1)

\* the <meta> elements carrying a title key, anywhere in the document
TitleMetas(d) ==
    {n \in ElementsNamed(d, "meta") :
        /\ d[n].attrs[1][1] \in {"property", "name"}
        /\ d[n].attrs[1][2] \in Range(TITLE_META_INFO)
        /\ d[n].hasContent}

FirstByRank(d, Q) ==
    CHOOSE n \in Q : \A m \in Q :
        MetaRank(d[n]) < MetaRank(d[m]) \/ (MetaRank(d[n]) = MetaRank(d[m]) /\ n <= m)

\* C11: with no title meta and no <h1>, a <title> text holding a delimiter
\* yields the trimmed piece selected by splitting on the first delimiter
\* present (the longest piece), e.g. "Hello | Site" yields "Hello".
C11_TitleSplitOnDelimiter ==
    (/\ pc = "done"
     /\ TitleMetas(t_doc) = {} /\ ElementsNamed(t_doc, "h1") = {}
     /\ ElementsNamed(t_doc, "title") # {}
     /\ \E k \in 1..Len(DELIMITERS) :
           contains(ElemText(t_doc, Min(ElementsNamed(t_doc, "title"))), DELIMITERS[k]))
    => t_out = SomeText(DelimiterSplit(trim(ElemText(t_doc, Min(ElementsNamed(t_doc, "title")))),
                                       <<>>, 1))

\* C12 as stated: a <meta> with a title key as property or name and non-empty
\* content makes title() return the post-processed content of the first
\* match, key by key in the listed order, property before name.
C12_MetaTitleAnyMeta ==
    LET Q == {n \in TitleMetas(t_doc) : t_doc[n].content # <<>>}
    IN  (pc = "done" /\ Q # {}) =>
            t_out = SomeText(postprocess_title(t_doc[FirstByRank(t_doc, Q)].content))

\* C12 amended: a <meta> below <head> with a title key as property or name
\* whose content is not blank makes title() return the post-processed content
\* of the first such match, key by key in the listed order, property before
\* name, also when an <h1> or a <title> exists.
C12_MetaTitleHeadMeta ==
    LET Q == {n \in TitleMetas(t_doc) : t_doc[n].inHead /\ trim(t_doc[n].content) # <<>>}
    IN  (pc = "done" /\ Q # {}) =>
            t_out = SomeText(postprocess_title(trim(t_doc[FirstByRank(t_doc, Q)].content)))

\* C12 witness: the title is the content of a dc.title name meta although an
\* og:title property meta precedes it in the document and an <h1> exists
C12_Witness ==
    /\ pc = "done" /\ t_out.some
    /\ ElementsNamed(t_doc, "h1") # {}
    /\ \E n, m \in TitleMetas(t_doc) :
          /\ n < m /\ t_doc[n].inHead /\ t_doc[m].inHead
          /\ t_doc[n].attrs[1] = <<"property", "og:title">> /\ trim(t_doc[n].content) # <<>>
          /\ t_doc[m].attrs[1] = <<"name", "dc.title">>
          /\ t_out.text = postprocess_title(t_doc[m].content)

\* C13: when no title meta yields a value and some <h1> text has more than two
\* words, title() returns the longest <h1> text with whitespace runs collapsed
\* to one space.
C13_LongestH1 ==
    LET hs == ElementsNamed(t_doc, "h1")
        wordy == {n \in hs : Len(split_whitespace(ElemText(t_doc, n))) > 2}
        best == CHOOSE n \in wordy : \A m \in wordy :
                    ByteLen(trim(ElemText(t_doc, m))) <= ByteLen(trim(ElemText(t_doc, n)))
    IN  (pc = "done" /\ ~MetaTitle(t_doc, 1).some /\ wordy # {}) =>
            t_out = SomeText(join(split_whitespace(ElemText(t_doc, best)), <<" ">>))

(***************************************************************************)
(* Properties of clean_text (checked under SpecText).                      *)
(***************************************************************************)
\* the segments of the returned text between line breaks
OutLines == split(c_out, {"LF"})

\* the text extract_clean_text hands to post_process_text
RawText == extract_clean_text(c_doc.d, c_doc.node)

\* C14: the string clean_text returns holds no U+00A0 and no line for which
\* is_code_like_line is true.
C14_NoNbspNoCodeLine ==
    pc = "done" =>
        /\ \A x \in 1..Len(c_out) : c_out[x] # "NBSP"
        /\ \A k \in 1..Len(OutLines) : ~is_code_like_line(OutLines[k])

\* C14 witness: text is returned although the paragraphs held a U+00A0 and a
\* code-like line
C14_Witness ==
    /\ pc = "done" /\ c_out # <<>>
    /\ \E x \in 1..Len(RawText) : RawText[x] = "NBSP"
    /\ \E k \in 1..Len(lines(RawText)) : is_code_like_line(lines(RawText)[k])

\* C15 as stated: the returned text has no empty segment and no run of two or
\* more consecutive whitespace characters.
C15_NoWhitespaceRuns ==
    pc = "done" =>
        /\ c_out = <<>> \/ \A k \in 1..Len(OutLines) : OutLines[k] # <<>>
        /\ \A x \in 1..(Len(c_out) - 1) :
              ~(is_whitespace(c_out[x]) /\ is_whitespace(c_out[x + 1]))

\* C15 amended: the returned text has no empty line and no line that begins
\* or ends with whitespace; whitespace runs inside a line are kept.
C15_LinesTrimmed ==
    (pc = "done" /\ c_out # <<>>) =>
        \A k \in 1..Len(OutLines) :
            /\ OutLines[k] # <<>>
            /\ ~is_whitespace(OutLines[k][1])
            /\ ~is_whitespace(OutLines[k][Len(OutLines[k])])

\* C15 witness: the returned text keeps a run of two whitespace characters
\* and a paragraph had whitespace next to a line break
C15_Witness ==
    /\ pc = "done"
    /\ \E x \in 1..(Len(c_out) - 1) : is_whitespace(c_out[x]) /\ is_whitespace(c_out[x + 1])
    /\ \E k \in 1..Len(lines(RawText)) :
          lines(RawText)[k] # <<>> /\ is_whitespace(lines(RawText)[k][1])

\* C29: every line of the text clean_text returns is non-empty and has at
\* least 30% alphabetic characters (blank, code-like and low-alpha lines are
\* dropped).
C29_LinesNonEmptyAndAlphabetic ==
    (pc = "done" /\ c_out # <<>>) =>
        \A k \in 1..Len(OutLines) :
            LET line == OutLines[k]
                alpha_count == Cardinality({x \in 1..Len(line) :
                                   line[x] \in Range(Uppercase) \cup Range(Lowercase)})
            IN  /\ line # <<>>
                /\ 10 * alpha_count >= 3 * Len(line)

\* the <a> elements below a paragraph, and whether one carries nofollow
LinksOf(p) == {l \in Descendants(c_doc.d, p) : c_doc.d[l].tag = "a"}
HasNofollow(l) == c_doc.d[l].attrs["rel"] \in {"nofollow", "noopener nofollow"}

\* the paragraphs the claim lets contribute: below the selected node, not a
\* noise node, not a promotional footer, with text that is neither blank nor
\* noise text
Contributing ==
    {p \in Descendants(c_doc.d, c_doc.node) :
        /\ c_doc.d[p].tag = "p"
        /\ ~is_noise_node(c_doc.d, p)
        /\ ~(LinksOf(p) # {} /\ \A l \in LinksOf(p) : HasNofollow(l))
        /\ trim(node_text(c_doc.d, p)) # <<>>
        /\ ~is_noise_text_chars(trim(node_text(c_doc.d, p)))}

\* C16: clean_text is made of the trimmed texts of the contributing
\* paragraphs, in document order, joined by single spaces; a paragraph with a
\* link lacking nofollow, or without links, is not dropped as a footer.
C16_ParagraphSelection ==
    LET Q == Contributing
        nth(k) == CHOOSE q \in Q : Cardinality({r \in Q : r < q}) = k - 1
        parts == [k \in 1..Cardinality(Q) |-> trim(node_text(c_doc.d, nth(k)))]
    IN  pc = "done" => c_out = post_process_text(join(parts, <<" ">>))

\* C16 witness: text is returned from a paragraph with a nofollow link and a
\* plain link, while a paragraph with only nofollow links is dropped
C16_Witness ==
    /\ pc = "done" /\ c_out # <<>>
    /\ \E p \in Contributing :
          (\E l \in LinksOf(p) : HasNofollow(l)) /\ (\E l \in LinksOf(p) : ~HasNofollow(l))
    /\ \E p \in Descendants(c_doc.d, c_doc.node) :
          /\ c_doc.d[p].tag = "p" /\ ~is_noise_node(c_doc.d, p)
          /\ LinksOf(p) # {} /\ \A l \in LinksOf(p) : HasNofollow(l)

(***************************************************************************)
(* Properties of the metadata extractors (checked under SpecMeta).         *)
(***************************************************************************)
\* the two sources of the canonical URL, parsed
CanonicalSource ==
    IF canonical_hrefs(m_doc.nodes) # <<>>
    THEN url_parse(node_attr(canonical_hrefs(m_doc.nodes)[1], "href").text)
    ELSE NoText
OgUrlSource ==
    IF meta_content(m_doc.nodes, "property", "og:url").some
    THEN url_parse(meta_content(m_doc.nodes, "property", "og:url").text)
    ELSE NoText

\* C17: canonical_link returns the first of the <link rel="canonical"> href
\* and the og:url content that parses as an absolute URL, and None only when
\* neither source parses.
C17_FirstParseableSource ==
    pc = "canonical" =>
        m_out = IF CanonicalSource.some THEN CanonicalSource ELSE OgUrlSource

\* C18: publishing_date returns the document's date when the extractor finds
\* one; otherwise, with a base URL, the result of the extractor on the URL
\* path (/2025/11/15/slug/ gives 2025-11-15, source url-path); otherwise None.
C18_DocDateThenUrlPath ==
    pc = "date" =>
        /\ m_doc.doc_date.some => m_out = m_doc.doc_date
        /\ (~m_doc.doc_date.some /\ m_doc.base_url.some) =>
              /\ m_out = extract_from_str(url_path(m_doc.base_url.text))
              /\ url_path(m_doc.base_url.text) = <<"/", "2", "0", "2", "5", "/", "1", "1", "/", "1", "5", "/", "s", "l", "u", "g", "/">>
                    => m_out = SomeDate(2025, 11, 15, "url-path")
        /\ (~m_doc.doc_date.some /\ ~m_doc.base_url.some) => m_out = NoDate

\* C18 witness: the document has a date and the base URL path has another
C18_Witness ==
    /\ pc = "date" /\ m_doc.doc_date.some /\ m_doc.base_url.some
    /\ extract_from_str(url_path(m_doc.base_url.text)).some
    /\ m_out = m_doc.doc_date

\* the first <meta> anywhere in the document that carries the attribute,
\* with whatever content it has
any_meta(d, attrName, value) ==
    SelectSeq(d, LAMBDA n : /\ n.kind = "element" /\ n.tag = "meta"
                            /\ node_attr(n, attrName).some
                            /\ node_attr(n, attrName).text = value
                            /\ n.hasContent)
declared_sources(d) ==
    << language_sources(d)[1],
       IF any_meta(d, "http-equiv", "Content-Language") # <<>>
       THEN SomeText(any_meta(d, "http-equiv", "Content-Language")[1].content)
       ELSE NoText,
       IF any_meta(d, "name", "lang") # <<>>
       THEN SomeText(any_meta(d, "name", "lang")[1].content) ELSE NoText >>

PresentLangs(sources) == {k \in 1..3 : sources[k].some}
KnownLangs(sources) == {k \in PresentLangs(sources) : from_str(sources[k].text).ok}

\* the first known language of the sources is returned, Unknown(raw) only if
\* no source is known, and None only if no source is present
FirstKnownOf(sources) ==
    /\ KnownLangs(sources) # {} =>
          /\ m_out.some /\ m_out.lang # "Unknown"
          /\ m_out.raw = sources[Min(KnownLangs(sources))].text
    /\ (KnownLangs(sources) = {} /\ PresentLangs(sources) # {}) =>
          /\ m_out.some /\ m_out.lang = "Unknown"
          /\ \E k \in PresentLangs(sources) : m_out.raw = sources[k].text
    /\ PresentLangs(sources) = {} => ~m_out.some

\* C19: meta_language returns the first of <html lang>, the Content-Language
\* meta and the lang meta that parses to a known language; Unknown(raw) only
\* if none parses, and None only if none of the three is present, where a
\* <meta> of the document with a content attribute is present.
C19_FirstKnownLanguage ==
    pc = "language" => FirstKnownOf(declared_sources(m_doc.nodes))

\* C19 (amended): the same, where a <meta> is present only below <head> and
\* with a content that is not blank.
C19_FirstKnownHeadLanguage ==
    pc = "language" => FirstKnownOf(language_sources(m_doc.nodes))

\* C19 witness: <html lang> is unknown and a later meta gives the language
C19_Witness ==
    /\ pc = "language" /\ m_out.some /\ m_out.lang # "Unknown"
    /\ 1 \in PresentLangs(language_sources(m_doc.nodes))
    /\ 1 \notin KnownLangs(language_sources(m_doc.nodes))

====
